---- MODULE Spec2Model ----
(***************************************************************************)
(* The lobby session server of ME-DandD (the consent-flow server,          *)
(* src/unnamed/part_001 lines 1-803; src/server.js is the same server      *)
(* without the start-lock and consent flow, and with the handler of        *)
(* campaign_choice_pick, lines 403-417).  One socket.io connection         *)
(* handler per socket keeps the closure variables `username` and `lobby`;  *)
(* the lobbies live in the process-wide map memory.lobbies.  Handlers run   *)
(* to completion on the single event loop, except where they await the     *)
(* storage mirror.                                                         *)
(***************************************************************************)
EXTENDS Integers, Sequences, FiniteSets, TLC

\* ------------------------------------------------------------------ bounds
MaxConns == 2
MaxNameLen == 4
MaxJoins == 2

Conns == 1..MaxConns

\* ------------------------------------------------------------ JS encodings
\* null closure/lobby fields: a string-valued field that is null holds <<>>,
\* one that holds the string s holds <<s>>; `lobby` and passwordHash, which
\* can never hold the empty string, use "" for null.
None == <<>>
Some(x) == <<x>>
NoLobby == ""
NoHash == ""

VARIABLES
  open,          \* open[c]: socket c is connected
  username,      \* closure variable `username` of socket c
  lobby,         \* closure variable `lobby` of socket c ("" is null)
  room,          \* the socket.io lobby room socket c is in ("" is none)
  awaiting,      \* the join_lobby continuations of socket c parked on the mirror write
  joins,         \* history: the join_lobby events of socket c handled so far
  mongo,         \* the storage mirror: "off" (useMongo false), "up", "down" (db is null)
  fault,         \* an exception has escaped a handler (uncaught, or an unhandled rejection)
  gm,            \* L.gm; every per-lobby variable is a function on the keys of memory.lobbies
  passwordHash,  \* L.passwordHash, "<salt>:<hash>" ("" is null)
  bans,          \* L.bans
  users,         \* L.users: socket id -> display name
  characters,    \* keys of L.characters
  encounter,     \* L.encounter
  map,           \* L.map
  campaign,      \* L.campaign
  settings,      \* L.settings, with consent.pending kept as the field pending
  acked,         \* history: sockets whose campaign_choice_ack reached the pending request
  messages,      \* L.messages, the chat log
  rolls,         \* L.rolls, the roll log
  out            \* the messages the last handled event emitted, in order

connVars == <<open, username, lobby, room, awaiting, joins>>
memberVars == <<gm, passwordHash, bans, users>>
gameVars == <<characters, encounter, map, campaign, settings, acked, messages, rolls>>
vars == <<open, username, lobby, room, awaiting, joins, mongo, fault, gm, passwordHash,
          bans, users, characters, encounter, map, campaign, settings, acked,
          messages, rolls, out>>

\* ----------------------------------------------------------------- helpers
IsSpace(s, i) == SubSeq(s, i, i) = " "

RECURSIVE TrimLeft(_)
TrimLeft(s) == IF Len(s) > 0 /\ IsSpace(s, 1) THEN TrimLeft(SubSeq(s, 2, Len(s))) ELSE s

RECURSIVE TrimRight(_)
TrimRight(s) ==
  IF Len(s) > 0 /\ IsSpace(s, Len(s)) THEN TrimRight(SubSeq(s, 1, Len(s) - 1)) ELSE s

\* safe(s, max) = String(s ?? '').trim().slice(0, max)
safe(s, max) ==
  LET t == TrimRight(TrimLeft(s))
  IN  IF Len(t) > max THEN SubSeq(t, 1, max) ELSE t

\* a || b on strings
OrElse(a, b) == IF a = "" THEN b ELSE a

Min(a, b) == IF a < b THEN a ELSE b
Max(a, b) == IF a > b THEN a ELSE b
unclamped(n, a, b) == n

clamp(n, a, b) == Max(a, Min(b, n))

LowerChar(ch) ==
  CASE ch = "A" -> "a" [] ch = "B" -> "b" [] ch = "C" -> "c" [] ch = "Z" -> "z"
    [] ch = "D" -> "d" [] ch = "H" -> "h" [] ch = "K" -> "k" [] ch = "L" -> "l"
    [] OTHER -> ch

RECURSIVE toLowerCase(_)
toLowerCase(s) ==
  IF Len(s) = 0 THEN ""
  ELSE LowerChar(SubSeq(s, 1, 1)) \o toLowerCase(SubSeq(s, 2, Len(s)))

\* memory.lobbies.get(l).<field>, with the value ensureLobby would create
At(f, l, d) == IF l \in DOMAIN f THEN f[l] ELSE d

MapPut(f, k, v) == [x \in (DOMAIN f) \cup {k} |-> IF x = k THEN v ELSE f[x]]
MapKeep(f, k) == f

MapDelete(f, k) == [x \in (DOMAIN f) \ {k} |-> f[x]]

\* ---------------------------------------------------------------- messages
ToSock(c, e, d) == [ev |-> e, sock |-> c, room |-> "", data |-> d]
ToRoom(l, e, d) == [ev |-> e, sock |-> 0, room |-> l, data |-> d]

\* the users and gm fields of the state payload as emitState reads them from
\* the lobby object when it is called, which is after the handler's writes
\* of the step (the other fields of the payload are left out)
stalePayload(lb) == [users |-> At(users, lb, << >>), gm |-> At(gm, lb, None)]

StatePayload(lb) == [users |-> At(users', lb, << >>), gm |-> At(gm', lb, None)]

\* emitState / emitMap of a socket whose closure variable `lobby` is lb
emitState(lb) == IF lb = NoLobby THEN <<>> ELSE <<ToRoom(lb, "state", StatePayload(lb))>>
emitMap(lb) == IF lb = NoLobby THEN <<>> ELSE <<ToRoom(lb, "map_state", "")>>

\* ---------------------------------------------------------------- defaults
StdW == 20
StdH == 20
\* Array.from({length: h}, () => Array(w).fill(0)); tiles[y][x], both from 0
Grid(w, h) == [y \in 0..(h - 1) |-> [x \in 0..(w - 1) |-> 0]]
defaultMap == [w |-> StdW, h |-> StdH, tiles |-> Grid(StdW, StdH), tokens |-> << >>]

Choice(id, to) == [id |-> id, to |-> to]
Scene(id, choices) == [id |-> id, choices |-> choices]
defaultCampaign ==
  [ scenes |-> <<
      Scene("s_intro", <<Choice("c_intro_tavern", "s_tavern"), Choice("c_intro_board", "s_board")>>),
      Scene("s_tavern", <<Choice("c_tavern_accept", "s_road"), Choice("c_tavern_market", "s_market")>>),
      Scene("s_board", <<Choice("c_board_investigate", "s_road"), Choice("c_board_ignore", "s_market")>>),
      Scene("s_market", <<Choice("c_market_lighthouse", "s_lighthouse"), Choice("c_market_sleep", "s_road")>>),
      Scene("s_road", <<Choice("c_road_track", "s_cave"), Choice("c_road_help", "s_graywick")>>),
      Scene("s_cave", <<Choice("c_cave_rescue", "s_reward"), Choice("c_cave_idol", "s_reward")>>),
      Scene("s_lighthouse", <<Choice("c_lh_descend", "s_reward")>>),
      Scene("s_graywick", <<Choice("c_graywick_road", "s_road")>>),
      Scene("s_reward", << >>) >>,
    currentSceneId |-> "s_intro" ]

defaultSettings ==
  [lockedUntilStart |-> TRUE, campaignStarted |-> FALSE, requireCharacter |-> TRUE,
   pending |-> None]

defaultEncounter == [active |-> FALSE, order |-> << >>, turnIndex |-> 0]

\* ------------------------------------------------------------------- state
Init ==
  /\ open = [c \in Conns |-> TRUE]
  /\ username = [c \in Conns |-> "Anon"]
  /\ lobby = [c \in Conns |-> NoLobby]
  /\ room = [c \in Conns |-> ""]
  /\ awaiting = [c \in Conns |-> << >>]
  /\ joins = [c \in Conns |-> 0]
  /\ mongo \in {"off", "up", "down"}
  /\ fault = FALSE
  /\ gm = << >>
  /\ passwordHash = << >>
  /\ bans = << >>
  /\ users = << >>
  /\ characters = << >>
  /\ encounter = << >>
  /\ map = << >>
  /\ campaign = << >>
  /\ settings = << >>
  /\ acked = << >>
  /\ messages = << >>
  /\ rolls = << >>
  /\ out = << >>

\* ------------------------------------------------- identity and membership
Names(l) == {At(users, l, << >>)[k] : k \in DOMAIN At(users, l, << >>)}

\* a truthy L.gm
HasGM(l) == At(gm, l, None) # None /\ At(gm, l, None)[1] # ""

\* isGM(L) of socket c: L.gm === username
isGM(l, c) == gm[l] = Some(username[c])

joinAlways(l, name) == TRUE

joinOk(l, name) == toLowerCase(name) \notin At(bans, l, {})

RECURSIVE FirstFree(_, _, _)
FirstFree(taken, base, i) ==
  IF (base \o ToString(i)) \in taken THEN FirstFree(taken, base, i + 1) ELSE i

keepName(taken, base) == OrElse(base, "Anon")

uniqueName(taken, base) ==
  LET nm == OrElse(base, "Anon")
  IN  IF nm \notin taken THEN nm ELSE base \o ToString(FirstFree(taken, base, 2))

\* scrypt under a salt, kept as "<salt>:<hash>"; the hash of a plain text is
\* written as the text between bars
Salt == "5a17"
scrypt(plain, salt) == "|" \o plain \o "|"
hashPass(plain) == Salt \o ":" \o scrypt(plain, Salt)

\* the stored value split at ':' must give a salt and a hash, and the hash
\* must be that of the plain text under that salt
verifyPass(plain, stored) ==
  /\ Len(stored) > Len(Salt) + 1
  /\ SubSeq(stored, 1, Len(Salt) + 1) = Salt \o ":"
  /\ SubSeq(stored, Len(Salt) + 2, Len(stored)) = scrypt(plain, Salt)

\* ensureLobby(l) for the fields a handler leaves as they are
EnsureGame(l) ==
  /\ characters' = MapPut(characters, l, At(characters, l, {}))
  /\ encounter' = MapPut(encounter, l, At(encounter, l, defaultEncounter))
  /\ map' = MapPut(map, l, At(map, l, defaultMap))
  /\ campaign' = MapPut(campaign, l, At(campaign, l, defaultCampaign))
  /\ settings' = MapPut(settings, l, At(settings, l, defaultSettings))
  /\ acked' = MapPut(acked, l, At(acked, l, {}))
  /\ messages' = MapPut(messages, l, At(messages, l, << >>))
  /\ rolls' = MapPut(rolls, l, At(rolls, l, << >>))

\* socket.on('identify'): name is the payload field ("" when absent)
Identify(c, name) ==
  /\ open[c]
  /\ username' = [username EXCEPT ![c] = safe(OrElse(name, "Anon"), 24)]
  /\ out' = <<ToSock(c, "identified", username'[c])>>
  /\ UNCHANGED <<open, lobby, room, awaiting, joins, mongo, fault, memberVars, gameVars>>

\* the part of join_lobby after the password branch (part_001 lines 261-275)
JoinTail(c, l) ==
  LET name == uniqueName(Names(l), username[c])
  IN  /\ Len(name) <= MaxNameLen
      /\ lobby' = [lobby EXCEPT ![c] = l]
      /\ room' = [room EXCEPT ![c] = IF open[c] THEN l ELSE ""]
      /\ username' = [username EXCEPT ![c] = name]
      /\ users' = MapPut(users, l, MapPut(At(users, l, << >>), c, name))
      /\ out' = <<ToSock(c, "joined", l), ToRoom(l, "system", name \o " joined " \o l)>> \o
                (IF At(settings, l, defaultSettings).requireCharacter
                      /\ name \notin At(characters, l, {})
                   THEN <<ToSock(c, "character_required", "")>> ELSE << >>) \o
                emitState(l) \o emitMap(l)

\* lobbyName = safe(lobbyName || 'tavern', 40) || 'tavern'
LobbyOf(rawLobby) == OrElse(safe(OrElse(rawLobby, "tavern"), 40), "tavern")

\* join_lobby refused: banned, or the lobby's password not matched
JoinRejected(c, rawLobby, password) ==
  LET l == LobbyOf(rawLobby)
      stored == At(passwordHash, l, NoHash)
  IN  /\ open[c]
      /\ joins[c] < MaxJoins
      /\ \/ ~joinOk(l, username[c])
         \/ stored # NoHash /\ (password = "" \/ ~verifyPass(password, stored))
      /\ gm' = MapPut(gm, l, At(gm, l, None))
      /\ passwordHash' = MapPut(passwordHash, l, stored)
      /\ bans' = MapPut(bans, l, At(bans, l, {}))
      /\ users' = MapPut(users, l, At(users, l, << >>))
      /\ EnsureGame(l)
      /\ out' = <<ToSock(c, "error_message",
                         IF ~joinOk(l, username[c]) THEN "You are banned from this lobby."
                         ELSE "Lobby is locked (wrong password).")>>
      /\ joins' = [joins EXCEPT ![c] = @ + 1]
      /\ UNCHANGED <<open, username, lobby, room, awaiting, mongo, fault>>

\* join_lobby that needs no mirror write: the lobby's password matched, or no
\* password is involved; the handler runs to its end in one step
JoinDirect(c, rawLobby, password) ==
  LET l == LobbyOf(rawLobby)
      stored == At(passwordHash, l, NoHash)
  IN  /\ open[c]
      /\ joins[c] < MaxJoins
      /\ joins' = [joins EXCEPT ![c] = @ + 1]
      /\ joinOk(l, username[c])
      /\ \/ stored # NoHash /\ password # "" /\ verifyPass(password, stored)
         \/ stored = NoHash /\ password = ""
      /\ gm' = MapPut(gm, l, IF stored = NoHash /\ ~HasGM(l)
                               THEN Some(username[c]) ELSE At(gm, l, None))
      /\ passwordHash' = MapPut(passwordHash, l, stored)
      /\ bans' = MapPut(bans, l, At(bans, l, {}))
      /\ EnsureGame(l)
      /\ JoinTail(c, l)
      /\ UNCHANGED <<open, awaiting, mongo, fault>>

\* join_lobby carrying a password to a lobby that has none: the password and
\* the GM are set, then the handler awaits upsertLobbyMeta.  With the mirror
\* off the await resumes before any other event; with the mirror down
\* (db is null) upsertLobbyMeta throws and the handler ends there; with the
\* mirror up the rest of the handler is parked until the write settles.
JoinSetPassword(c, rawLobby, password) ==
  LET l == LobbyOf(rawLobby)
  IN  /\ open[c]
      /\ joins[c] < MaxJoins
      /\ joins' = [joins EXCEPT ![c] = @ + 1]
      /\ joinOk(l, username[c])
      /\ At(passwordHash, l, NoHash) = NoHash /\ password # ""
      /\ passwordHash' = MapPut(passwordHash, l, hashPass(password))
      /\ gm' = MapPut(gm, l, IF ~HasGM(l) THEN Some(username[c]) ELSE At(gm, l, None))
      /\ bans' = MapPut(bans, l, At(bans, l, {}))
      /\ EnsureGame(l)
      /\ CASE mongo = "off" ->
                /\ JoinTail(c, l)
                /\ UNCHANGED <<open, awaiting, fault>>
           [] mongo = "down" ->
                /\ users' = MapPut(users, l, At(users, l, << >>))
                /\ out' = << >>
                /\ fault' = TRUE
                /\ UNCHANGED <<open, username, lobby, room, awaiting>>
           [] OTHER ->
                /\ awaiting[c] = << >>
                /\ awaiting' = [awaiting EXCEPT ![c] = <<l>>]
                /\ users' = MapPut(users, l, At(users, l, << >>))
                /\ out' = << >>
                /\ UNCHANGED <<open, username, lobby, room, fault>>
      /\ UNCHANGED mongo

\* the mirror write of a parked join_lobby resolves: the handler resumes
JoinResume(c) ==
  /\ Len(awaiting[c]) = 1
  /\ awaiting' = [awaiting EXCEPT ![c] = << >>]
  /\ UNCHANGED <<open, joins, mongo, fault, gm, passwordHash, bans, gameVars>>
  /\ JoinTail(c, awaiting[c][1])

\* the mirror write of a parked join_lobby rejects: the handler ends there
JoinWriteFailed(c) ==
  /\ Len(awaiting[c]) = 1
  /\ awaiting' = [awaiting EXCEPT ![c] = << >>]
  /\ out' = << >>
  /\ fault' = TRUE
  /\ UNCHANGED <<open, username, lobby, room, joins, mongo, memberVars, gameVars>>

\* chat "/setpass <argStr>" up to the await of upsertLobbyMeta: the hash, and
\* the GM when there is none, are set first.  With the mirror off the await
\* resumes before any other event; with the mirror down upsertLobbyMeta
\* throws and the handler ends; with the mirror up the notice and emitState
\* are parked (awaiting[c] holds the command and the lobby it was issued in).
SetPass(c, argStr) ==
  LET l == lobby[c]
  IN  /\ open[c]
      /\ l # NoLobby
      /\ UNCHANGED <<open, username, lobby, room, joins, mongo, bans, users, gameVars>>
      /\ IF passwordHash[l] # NoHash /\ ~isGM(l, c)
           THEN /\ out' = <<ToSock(c, "error_message", "Only GM can change password.")>>
                /\ UNCHANGED <<gm, passwordHash, awaiting, fault>>
         ELSE IF argStr = ""
           THEN /\ out' = <<ToSock(c, "error_message", "Usage: /setpass <password>")>>
                /\ UNCHANGED <<gm, passwordHash, awaiting, fault>>
         ELSE /\ mongo = "up" => awaiting[c] = << >>
              /\ passwordHash' = [passwordHash EXCEPT ![l] = hashPass(argStr)]
              /\ gm' = [gm EXCEPT ![l] = IF ~HasGM(l) THEN Some(username[c]) ELSE @]
              /\ CASE mongo = "off" ->
                        /\ out' = <<ToRoom(l, "system", "Lobby password set/updated.")>> \o emitState(l)
                        /\ UNCHANGED <<awaiting, fault>>
                   [] mongo = "down" ->
                        /\ out' = << >>
                        /\ fault' = TRUE
                        /\ UNCHANGED awaiting
                   [] OTHER ->
                        /\ awaiting' = [awaiting EXCEPT ![c] = <<"/setpass", l>>]
                        /\ out' = << >>
                        /\ UNCHANGED fault

\* the mirror write of a parked /setpass resolves: send(...) and emitState()
\* go to the lobby the closure variable names at that moment
SetPassResume(c) ==
  /\ Len(awaiting[c]) = 2
  /\ awaiting' = [awaiting EXCEPT ![c] = << >>]
  /\ UNCHANGED <<open, username, lobby, room, joins, mongo, fault, memberVars, gameVars>>
  /\ out' = <<ToRoom(lobby[c], "system", "Lobby password set/updated.")>> \o emitState(lobby[c])

\* the mirror write of a parked /setpass rejects: the handler ends there
SetPassWriteFailed(c) ==
  /\ Len(awaiting[c]) = 2
  /\ awaiting' = [awaiting EXCEPT ![c] = << >>]
  /\ out' = << >>
  /\ fault' = TRUE
  /\ UNCHANGED <<open, username, lobby, room, joins, mongo, memberVars, gameVars>>

\* socket.on('disconnect')
Disconnect(c) ==
  /\ open[c]
  /\ open' = [open EXCEPT ![c] = FALSE]
  /\ room' = [room EXCEPT ![c] = ""]
  /\ UNCHANGED <<username, lobby, awaiting, joins, mongo, fault, gm, passwordHash, bans, gameVars>>
  /\ IF lobby[c] = NoLobby
       THEN /\ out' = << >>
            /\ UNCHANGED users
       ELSE /\ users' = [users EXCEPT ![lobby[c]] = MapDelete(@, c)]
            /\ out' = <<ToRoom(lobby[c], "system", username[c] \o " left")>> \o emitState(lobby[c])

\* the socket ids L.users records under display name n
EntryOf(l, n) == {k \in DOMAIN users[l] : users[l][k] = n}

\* chat "/kick <argStr>"
Kick(c, argStr) ==
  LET l == lobby[c]
      target == safe(argStr, 24)
  IN  /\ open[c]
      /\ l # NoLobby
      /\ UNCHANGED <<open, username, lobby, awaiting, joins, mongo, fault, gm, passwordHash, bans, gameVars>>
      /\ IF ~isGM(l, c)
           THEN /\ out' = <<ToSock(c, "error_message", "GM only.")>>
                /\ UNCHANGED <<room, users>>
           ELSE IF EntryOf(l, target) = {}
             THEN /\ out' = <<ToSock(c, "error_message", "User not found")>>
                  /\ UNCHANGED <<room, users>>
             ELSE LET targetId == CHOOSE k \in EntryOf(l, target) : TRUE
                  IN  /\ room' = [room EXCEPT ![targetId] = IF @ = l THEN "" ELSE @]
                      /\ users' = [users EXCEPT ![l] = MapDelete(@, targetId)]
                      /\ out' = <<ToSock(targetId, "error_message", "You were kicked by the GM."),
                                  ToRoom(l, "system", target \o " was kicked by the GM.")>> \o
                                emitState(l)

\* chat "/ban <argStr>"
Ban(c, argStr) ==
  LET l == lobby[c]
  IN  /\ open[c]
      /\ l # NoLobby
      /\ UNCHANGED <<connVars, mongo, fault, gm, passwordHash, users, gameVars>>
      /\ IF ~isGM(l, c)
           THEN out' = <<ToSock(c, "error_message", "GM only.")>> /\ UNCHANGED bans
           ELSE /\ bans' = [bans EXCEPT ![l] = @ \cup {toLowerCase(safe(argStr, 24))}]
                /\ out' = <<ToRoom(l, "system", argStr \o " is banned.")>> \o emitState(l)

\* chat "/unban <argStr>"
Unban(c, argStr) ==
  LET l == lobby[c]
  IN  /\ open[c]
      /\ l # NoLobby
      /\ UNCHANGED <<connVars, mongo, fault, gm, passwordHash, users, gameVars>>
      /\ IF ~isGM(l, c)
           THEN out' = <<ToSock(c, "error_message", "GM only.")>> /\ UNCHANGED bans
           ELSE /\ bans' = [bans EXCEPT ![l] = @ \ {toLowerCase(safe(argStr, 24))}]
                /\ out' = <<ToRoom(l, "system", argStr \o " is unbanned.")>> \o emitState(l)

\* ------------------------------------------------------ campaign / consent
isLockedForPlayers(l) == settings[l].lockedUntilStart /\ ~settings[l].campaignStarted

\* L.campaign.scenes.find(s => s.id === id), as the set of matching scenes
ScenesWithId(l, id) ==
  {campaign[l].scenes[i] : i \in {j \in DOMAIN campaign[l].scenes : campaign[l].scenes[j].id = id}}

\* scene.choices.findIndex(ch => ch.id === id), counted from 1; 0 when absent
choiceIndex(choices, id) ==
  IF \E i \in DOMAIN choices : choices[i].id = id
    THEN CHOOSE i \in DOMAIN choices :
           choices[i].id = id /\ \A j \in 1..(i - 1) : choices[j].id # id
    ELSE 0

\* the names the consent quorum ranges over: members whose name differs from L.gm
nonGM(l) == {n \in Names(l) : Some(n) # gm[l]}

CharacterRequired(l) ==
  LET need == {k \in DOMAIN users[l] : users[l][k] \notin characters[l]}
      RECURSIVE Each(_)
      Each(S) == IF S = {} THEN << >>
                 ELSE LET k == CHOOSE x \in S : \A y \in S : x <= y
                      IN  <<ToSock(k, "character_required", "campaign_started")>> \o Each(S \ {k})
  IN  Each(need)

\* the common guard of the lobby handlers: `if (!lobby) return;`
InLobby(c) == open[c] /\ lobby[c] # NoLobby

Rejected(c, text) == out' = <<ToSock(c, "error_message", text)>>

\* socket.on('campaign_start')
CampaignStart(c) ==
  LET l == lobby[c]
  IN  /\ InLobby(c)
      /\ UNCHANGED memberVars
      /\ IF ~isGM(l, c)
           THEN Rejected(c, "GM only.") /\ UNCHANGED settings
         ELSE IF settings[l].campaignStarted
           THEN Rejected(c, "Campaign already started.") /\ UNCHANGED settings
         ELSE /\ settings' = [settings EXCEPT ![l].campaignStarted = TRUE]
              /\ out' = <<ToRoom(l, "system", "GM started the campaign!"),
                          ToRoom(l, "campaign_started", campaign[l].currentSceneId)>> \o
                        CharacterRequired(l) \o emitState(l)
      /\ UNCHANGED <<connVars, mongo, fault, messages, rolls, characters, encounter, map, campaign, acked>>

\* socket.on('campaign_scene_set')
CampaignSceneSet(c, sceneId) ==
  LET l == lobby[c]
  IN  /\ InLobby(c)
      /\ UNCHANGED memberVars
      /\ IF ~isGM(l, c)
           THEN Rejected(c, "GM only.") /\ UNCHANGED campaign
         ELSE IF ScenesWithId(l, sceneId) = {}
           THEN out' = << >> /\ UNCHANGED campaign
         ELSE /\ campaign' = [campaign EXCEPT ![l].currentSceneId = sceneId]
              /\ out' = <<ToRoom(l, "system", "Scene changed to: " \o sceneId),
                          ToRoom(l, "campaign_state", sceneId)>>
      /\ UNCHANGED <<connVars, mongo, fault, messages, rolls, characters, encounter, map, settings, acked>>

\* chat "/scene set <id>": campaign_scene_set under other messages
SceneSetCommand(c, id) ==
  LET l == lobby[c]
  IN  /\ InLobby(c)
      /\ UNCHANGED memberVars
      /\ IF ~isGM(l, c)
           THEN Rejected(c, "GM only.") /\ UNCHANGED campaign
         ELSE IF ScenesWithId(l, id) = {}
           THEN Rejected(c, "Scene not found.") /\ UNCHANGED campaign
         ELSE /\ campaign' = [campaign EXCEPT ![l].currentSceneId = id]
              /\ out' = <<ToRoom(l, "system", "Scene set: " \o id)>> \o emitState(l)
      /\ UNCHANGED <<connVars, mongo, fault, messages, rolls, characters, encounter, map, settings, acked>>


\* bounds on the additions: scenes added to a campaign, choices of one scene
MaxAdded == 1
MaxChoices == 3

\* socket.on('campaign_scene_add'); rid is the id randId('scn') draws
CampaignSceneAdd(c, rid) ==
  LET l == lobby[c]
  IN  /\ InLobby(c)
      /\ UNCHANGED memberVars
      /\ IF ~isGM(l, c)
           THEN Rejected(c, "GM only.") /\ UNCHANGED campaign
           ELSE /\ Len(campaign[l].scenes) < Len(defaultCampaign.scenes) + MaxAdded
                /\ campaign' = [campaign EXCEPT
                     ![l].scenes = Append(@, Scene(rid, << >>)),
                     ![l].currentSceneId = IF @ = "" THEN rid ELSE @]
                /\ out' = <<ToRoom(l, "campaign_state", campaign'[l].currentSceneId)>>
      /\ UNCHANGED <<connVars, mongo, fault, messages, rolls, characters, encounter, map, settings, acked>>

\* socket.on('campaign_choice_add'); rid is the id randId('ch') draws, the
\* choice goes to the first scene with id sceneId
CampaignChoiceAdd(c, sceneId, to, rid) ==
  LET l == lobby[c]
      at == {i \in DOMAIN campaign[l].scenes : campaign[l].scenes[i].id = sceneId}
      k == CHOOSE i \in at : \A j \in at : i <= j
  IN  /\ InLobby(c)
      /\ UNCHANGED memberVars
      /\ IF ~isGM(l, c)
           THEN Rejected(c, "GM only.") /\ UNCHANGED campaign
         ELSE IF at = {}
           THEN out' = << >> /\ UNCHANGED campaign
         ELSE /\ Len(campaign[l].scenes[k].choices) < MaxChoices
              /\ campaign' = [campaign EXCEPT
                   ![l].scenes[k].choices = Append(@, Choice(rid, safe(to, 120)))]
              /\ out' = <<ToRoom(l, "campaign_state", campaign[l].currentSceneId)>>
      /\ UNCHANGED <<connVars, mongo, fault, messages, rolls, characters, encounter, map, settings, acked>>


\* socket.on('campaign_choice_request')
ChoiceRequest(c, choiceId) ==
  LET l == lobby[c]
      cur == ScenesWithId(l, campaign[l].currentSceneId)
      scene == CHOOSE sc \in cur : TRUE
      k == choiceIndex(scene.choices, choiceId)
  IN  /\ InLobby(c)
      /\ UNCHANGED memberVars
      /\ IF ~isGM(l, c)
           THEN Rejected(c, "GM only.") /\ UNCHANGED <<settings, acked>>
         ELSE IF ~settings[l].campaignStarted
           THEN Rejected(c, "Start campaign first.") /\ UNCHANGED <<settings, acked>>
         ELSE IF cur = {}
           THEN out' = << >> /\ UNCHANGED <<settings, acked>>
         ELSE IF k = 0
           THEN Rejected(c, "Choice not found.") /\ UNCHANGED <<settings, acked>>
         ELSE /\ settings' = [settings EXCEPT ![l].pending =
                   Some([choiceId |-> scene.choices[k].id, to |-> scene.choices[k].to,
                         approvals |-> {}])]
              /\ acked' = [acked EXCEPT ![l] = {}]
              /\ out' = <<ToRoom(l, "campaign_choice_requested", scene.choices[k].id)>> \o
                        emitState(l)
      /\ UNCHANGED <<connVars, mongo, fault, messages, rolls, characters, encounter, map, campaign>>

commitBlind(l, p, note) ==
  /\ campaign' = [campaign EXCEPT ![l].currentSceneId = p.to]
  /\ settings' = [settings EXCEPT ![l].pending = None]
  /\ acked' = [acked EXCEPT ![l] = {}]
  /\ out' = <<ToRoom(l, "system", note), ToRoom(l, "campaign_state", p.to)>> \o emitState(l)


\* the commit shared by campaign_choice_ack and campaign_choice_force: move the
\* pointer when the target scene exists, clear the request, broadcast
Commit(l, p, note) ==
  /\ campaign' = IF ScenesWithId(l, p.to) # {}
                   THEN [campaign EXCEPT ![l].currentSceneId = p.to] ELSE campaign
  /\ settings' = [settings EXCEPT ![l].pending = None]
  /\ acked' = [acked EXCEPT ![l] = {}]
  /\ out' = (IF ScenesWithId(l, p.to) # {}
               THEN <<ToRoom(l, "system", note), ToRoom(l, "campaign_state", p.to)>>
               ELSE << >>) \o emitState(l)

\* the quorum test of campaign_choice_ack: every non-GM member name is approved
allApproved(l, approvals) == \A n \in nonGM(l) : n \in approvals

\* socket.on('campaign_choice_ack')
ChoiceAck(c) ==
  LET l == lobby[c]
      p == settings[l].pending[1]
      approvals == p.approvals \cup {username[c]}
  IN  /\ InLobby(c)
      /\ UNCHANGED memberVars
      /\ IF settings[l].pending = None
           THEN out' = << >> /\ UNCHANGED <<campaign, settings, acked>>
         ELSE IF allApproved(l, approvals)
           THEN Commit(l, p, "Choice accepted")
         ELSE /\ settings' = [settings EXCEPT ![l].pending = Some([p EXCEPT !.approvals = approvals])]
              /\ acked' = [acked EXCEPT ![l] = @ \cup {c}]
              /\ out' = << >>
              /\ UNCHANGED campaign
      /\ UNCHANGED <<connVars, mongo, fault, messages, rolls, characters, encounter, map>>

\* socket.on('campaign_choice_force')
ChoiceForce(c) ==
  LET l == lobby[c]
  IN  /\ InLobby(c)
      /\ UNCHANGED memberVars
      /\ IF ~isGM(l, c)
           THEN Rejected(c, "GM only.") /\ UNCHANGED <<campaign, settings, acked>>
         ELSE IF settings[l].pending = None
           THEN out' = << >> /\ UNCHANGED <<campaign, settings, acked>>
         ELSE Commit(l, settings[l].pending[1], "GM forced proceed")
      /\ UNCHANGED <<connVars, mongo, fault, messages, rolls, characters, encounter, map>>

\* chat "/start": campaign_start under another error text
StartCommand(c) ==
  LET l == lobby[c]
  IN  /\ InLobby(c)
      /\ UNCHANGED memberVars
      /\ IF ~isGM(l, c)
           THEN Rejected(c, "GM only.") /\ UNCHANGED settings
         ELSE IF settings[l].campaignStarted
           THEN Rejected(c, "Already started.") /\ UNCHANGED settings
         ELSE /\ settings' = [settings EXCEPT ![l].campaignStarted = TRUE]
              /\ out' = <<ToRoom(l, "system", "GM started the campaign!"),
                          ToRoom(l, "campaign_started", campaign[l].currentSceneId)>> \o
                        CharacterRequired(l) \o emitState(l)
      /\ UNCHANGED <<connVars, mongo, fault, messages, rolls, characters, encounter, map, campaign, acked>>

\* CAMPAIGN_REGISTRY as loadCampaignRegistry fills it from the campaign files:
\* one campaign of a single scene under the key "mini"
CAMPAIGN_REGISTRY ==
  [mini |-> [scenes |-> <<Scene("m_start", << >>)>>, currentSceneId |-> "m_start"]]

LoadNoClear(c, l, lb, key) ==
  IF key \notin DOMAIN CAMPAIGN_REGISTRY
    THEN Rejected(c, "Campaign not found.") /\ UNCHANGED <<campaign, settings, acked>>
    ELSE /\ campaign' = [campaign EXCEPT ![l] = CAMPAIGN_REGISTRY[key]]
         /\ settings' = [settings EXCEPT ![l].campaignStarted = FALSE]
         /\ acked' = [acked EXCEPT ![l] = {}]
         /\ out' = <<ToRoom(lb, "system", "GM loaded campaign"),
                     ToRoom(lb, "campaign_state", campaign'[l].currentSceneId)>> \o emitState(lb)


\* campaign_load from the lookup of the key on: the campaign is replaced, the
\* start flag and the pending request are reset; l is the lobby object the
\* handler holds, lb the closure variable `lobby` the broadcasts go to
LoadPicked(c, l, lb, key) ==
  IF key \notin DOMAIN CAMPAIGN_REGISTRY
    THEN Rejected(c, "Campaign not found.") /\ UNCHANGED <<campaign, settings, acked>>
    ELSE /\ campaign' = [campaign EXCEPT ![l] = CAMPAIGN_REGISTRY[key]]
         /\ settings' = [settings EXCEPT ![l].campaignStarted = FALSE, ![l].pending = None]
         /\ acked' = [acked EXCEPT ![l] = {}]
         /\ out' = <<ToRoom(lb, "system", "GM loaded campaign"),
                     ToRoom(lb, "campaign_state", campaign'[l].currentSceneId)>> \o emitState(lb)

\* socket.on('campaign_load') with the registry already filled: one step
CampaignLoad(c, key) ==
  LET l == lobby[c]
  IN  /\ InLobby(c)
      /\ UNCHANGED memberVars
      /\ IF ~isGM(l, c)
           THEN Rejected(c, "GM only.") /\ UNCHANGED <<campaign, settings, acked>>
           ELSE LoadPicked(c, l, l, key)
      /\ UNCHANGED <<connVars, mongo, fault, messages, rolls, characters, encounter, map>>

\* socket.on('campaign_load') with the registry still empty: past the GM test
\* the handler awaits loadCampaignRegistry (awaiting[c] holds the event, the
\* lobby and the key)
CampaignLoadAwait(c, key) ==
  /\ InLobby(c)
  /\ isGM(lobby[c], c)
  /\ awaiting[c] = << >>
  /\ awaiting' = [awaiting EXCEPT ![c] = <<"campaign_load", lobby[c], key>>]
  /\ out' = << >>
  /\ UNCHANGED <<open, username, lobby, room, joins, mongo, fault, memberVars, gameVars>>

\* the registry is read: the parked campaign_load resumes
CampaignLoadResume(c) ==
  /\ Len(awaiting[c]) = 3
  /\ awaiting' = [awaiting EXCEPT ![c] = << >>]
  /\ UNCHANGED memberVars
  /\ LoadPicked(c, awaiting[c][2], lobby[c], awaiting[c][3])
  /\ UNCHANGED <<open, username, lobby, room, joins, mongo, fault, messages, rolls, characters, encounter, map>>

\* chat "/consent <argStr>": the GM's socket is sent consent_force, the lobby
\* is not touched
ConsentCommand(c, argStr) ==
  /\ InLobby(c)
  /\ IF ~isGM(lobby[c], c)
       THEN Rejected(c, "GM only.")
     ELSE IF safe(argStr, 120) = "force"
       THEN out' = <<ToSock(c, "consent_force", "")>>
     ELSE Rejected(c, "Use: /consent force")
  /\ UNCHANGED <<connVars, mongo, fault, memberVars, gameVars>>

\* socket.on('campaign_choice_pick') of server.js, the server without the
\* consent flow; the client of part_001 still emits this event (line 1161)
ChoicePick(c, choiceId) ==
  LET l == lobby[c]
      cur == ScenesWithId(l, campaign[l].currentSceneId)
      scene == CHOOSE sc \in cur : TRUE
      k == choiceIndex(scene.choices, choiceId)
  IN  /\ InLobby(c)
      /\ UNCHANGED memberVars
      /\ IF cur = {} \/ k = 0 \/ scene.choices[k].to = "" \/ ScenesWithId(l, scene.choices[k].to) = {}
           THEN out' = << >> /\ UNCHANGED campaign
         ELSE /\ campaign' = [campaign EXCEPT ![l].currentSceneId = scene.choices[k].to]
              /\ out' = <<ToRoom(l, "system", username[c] \o " chose: " \o scene.choices[k].id),
                          ToRoom(l, "campaign_state", scene.choices[k].to)>>
      /\ UNCHANGED <<connVars, mongo, fault, messages, rolls, characters, encounter, map, settings, acked>>

\* --------------------------------------------------------------------- map
\* a numeric payload field: << >> when absent or not a number, <<n>> otherwise
\* parseInt(v, 10) || d
parseIntOr(v, d) == IF v = << >> \/ v[1] = 0 THEN d ELSE v[1]

MinDim == 5
MaxDim == 60

\* socket.on('map_init'); the notice is written with an ASCII x
MapInit(c, w, h) ==
  LET l == lobby[c]
      cw == clamp(parseIntOr(w, StdW), MinDim, MaxDim)
      ch == clamp(parseIntOr(h, StdH), MinDim, MaxDim)
  IN  /\ InLobby(c)
      /\ UNCHANGED memberVars
      /\ IF ~isGM(l, c)
           THEN Rejected(c, "GM only.") /\ UNCHANGED map
         ELSE /\ map' = [map EXCEPT ![l] =
                   [w |-> cw, h |-> ch, tiles |-> Grid(cw, ch), tokens |-> << >>]]
              /\ out' = <<ToRoom(l, "system", "Map set to " \o ToString(cw) \o "x" \o ToString(ch))>>
                        \o emitMap(l)
      /\ UNCHANGED <<connVars, mongo, fault, messages, rolls, characters, encounter, campaign, settings, acked>>

\* socket.on('map_set')
MapSetTile(c, x, y, val) ==
  LET l == lobby[c]
      cx == clamp(parseIntOr(x, 0), 0, map[l].w - 1)
      cy == clamp(parseIntOr(y, 0), 0, map[l].h - 1)
  IN  /\ InLobby(c)
      /\ UNCHANGED memberVars
      /\ IF ~isGM(l, c)
           THEN Rejected(c, "GM only.") /\ UNCHANGED map
         ELSE IF cy \notin DOMAIN map[l].tiles
           THEN out' = << >> /\ UNCHANGED map
         ELSE /\ map' = [map EXCEPT ![l].tiles[cy][cx] = IF val THEN 1 ELSE 0]
              /\ out' = emitMap(l)
      /\ UNCHANGED <<connVars, mongo, fault, messages, rolls, characters, encounter, campaign, settings, acked>>

\* socket.on('map_clear')
MapClear(c) ==
  LET l == lobby[c]
  IN  /\ InLobby(c)
      /\ UNCHANGED memberVars
      /\ IF ~isGM(l, c)
           THEN Rejected(c, "GM only.") /\ UNCHANGED map
         ELSE /\ map' = [map EXCEPT ![l].tiles = Grid(map[l].w, map[l].h)]
              /\ out' = emitMap(l)
      /\ UNCHANGED <<connVars, mongo, fault, messages, rolls, characters, encounter, campaign, settings, acked>>

\* (tiles[y]?.[x] ?? 0)
TileAt(m, x, y) == IF y \in DOMAIN m.tiles /\ x \in DOMAIN m.tiles[y] THEN m.tiles[y][x] ELSE 0

Occupied(m, x, y) == \E t \in DOMAIN m.tokens : m.tokens[t].x = x /\ m.tokens[t].y = y

\* the cell token_add's row-major scan stops at; (0,0) when no cell qualifies
FirstFreeCell(m) ==
  LET free == {cell \in (0..(m.w - 1)) \X (0..(m.h - 1)) :
                 TileAt(m, cell[1], cell[2]) = 0 /\ ~Occupied(m, cell[1], cell[2])}
  IN  IF free = {} THEN <<0, 0>>
      ELSE CHOOSE cell \in free : \A o \in free :
             cell[2] < o[2] \/ (cell[2] = o[2] /\ cell[1] <= o[1])

\* the id token_add generates when the payload carries none
FreshTokenId(m) ==
  LET RECURSIVE Try(_)
      Try(n) == IF ("t_" \o ToString(n)) \in DOMAIN m.tokens THEN Try(n + 1) ELSE "t_" \o ToString(n)
  IN  Try(1)

Locked(c) == isLockedForPlayers(lobby[c]) /\ ~isGM(lobby[c], c)

\* socket.on('token_add')
TokenAdd(c, id, name, color) ==
  LET l == lobby[c]
      tid == safe(OrElse(id, FreshTokenId(map[l])), 40)
      cell == FirstFreeCell(map[l])
      tok == [id |-> tid, name |-> safe(OrElse(name, username[c]), 24),
              x |-> cell[1], y |-> cell[2], color |-> safe(OrElse(color, "#222"), 16),
              owner |-> username[c]]
  IN  /\ InLobby(c)
      /\ UNCHANGED memberVars
      /\ IF Locked(c)
           THEN Rejected(c, "Campaign not started by GM yet.") /\ UNCHANGED map
         ELSE /\ map' = [map EXCEPT ![l].tokens = MapPut(@, tid, tok)]
              /\ out' = emitMap(l)
      /\ UNCHANGED <<connVars, mongo, fault, messages, rolls, characters, encounter, campaign, settings, acked>>

neverWall(m, x, y) == FALSE

\* the wall test of token_move on the clamped destination
IsWall(m, x, y) == TileAt(m, x, y) = 1

\* socket.on('token_move')
TokenMove(c, id, x, y) ==
  LET l == lobby[c]
      cx == clamp(parseIntOr(x, 0), 0, map[l].w - 1)
      cy == clamp(parseIntOr(y, 0), 0, map[l].h - 1)
  IN  /\ InLobby(c)
      /\ UNCHANGED memberVars
      /\ IF Locked(c)
           THEN Rejected(c, "Campaign not started by GM yet.") /\ UNCHANGED map
         ELSE IF id \notin DOMAIN map[l].tokens
           THEN out' = << >> /\ UNCHANGED map
         ELSE IF ~isGM(l, c) /\ map[l].tokens[id].owner # username[c]
           THEN Rejected(c, "Only owner or GM can move this token.") /\ UNCHANGED map
         ELSE IF IsWall(map[l], cx, cy)
           THEN out' = << >> /\ UNCHANGED map
         ELSE /\ map' = [map EXCEPT ![l].tokens[id].x = cx, ![l].tokens[id].y = cy]
              /\ out' = emitMap(l)
      /\ UNCHANGED <<connVars, mongo, fault, messages, rolls, characters, encounter, campaign, settings, acked>>

\* --------------------------------------------------------------- encounter
\* the argument of /setinit as the pattern ^(\S+)\s+(-?\d+)$ sees it: the first
\* word and, when a single integer literal follows it, that integer
SetInitArg(name, init) == [name |-> name, init |-> init]

\* argStr.match(...): the captured pair, or None when the pattern fails
matchSetInit(arg) ==
  IF arg.name # "" /\ arg.init # None THEN Some([name |-> arg.name, init |-> arg.init[1]]) ELSE None

\* where Array.prototype.sort((a,b) => b.init - a.init) leaves e among entries
\* already in order: behind every entry whose init is not smaller
InsertByInit(sorted, e) ==
  LET k == Cardinality({j \in DOMAIN sorted : sorted[j].init >= e.init})
  IN  SubSeq(sorted, 1, k) \o <<e>> \o SubSeq(sorted, k + 1, Len(sorted))

RECURSIVE sortTiesFirst(_)
sortTiesFirst(order) ==
  IF order = << >> THEN << >>
  ELSE LET rest == sortTiesFirst(SubSeq(order, 1, Len(order) - 1))
           e == order[Len(order)]
           k == Cardinality({j \in DOMAIN rest : rest[j].init > e.init})
       IN  SubSeq(rest, 1, k) \o <<e>> \o SubSeq(rest, k + 1, Len(rest))

\* L.encounter.order.sort((a,b) => b.init - a.init): descending and stable
RECURSIVE sortByInit(_)
sortByInit(order) ==
  IF order = << >> THEN << >>
  ELSE InsertByInit(sortByInit(SubSeq(order, 1, Len(order) - 1)), order[Len(order)])

\* order.findIndex(o => o.name === name), counted from 1; 0 when absent
findIndex(order, name) ==
  IF \E i \in DOMAIN order : order[i].name = name
    THEN CHOOSE i \in DOMAIN order :
           order[i].name = name /\ \A j \in 1..(i - 1) : order[j].name # name
    ELSE 0

\* the upsert of /setinit before the sort
upsert(order, name, init) ==
  IF findIndex(order, name) > 0
    THEN [order EXCEPT ![findIndex(order, name)].init = init]
    ELSE Append(order, [name |-> name, init |-> init])

stepPast(turnIndex, n) == turnIndex + 1

\* (turnIndex + 1) % order.length
advance(turnIndex, n) == (turnIndex + 1) % n

\* chat "/startencounter"
StartEncounter(c) ==
  LET l == lobby[c]
  IN  /\ InLobby(c)
      /\ UNCHANGED memberVars
      /\ IF ~isGM(l, c)
           THEN Rejected(c, "GM only.") /\ UNCHANGED encounter
         ELSE /\ encounter' = [encounter EXCEPT ![l] = [active |-> TRUE, order |-> << >>, turnIndex |-> 0]]
              /\ out' = <<ToRoom(l, "system", "Encounter started. Use /setinit <name> <n>.")>> \o
                        emitState(l)
      /\ UNCHANGED <<connVars, mongo, fault, messages, rolls, characters, map, campaign, settings, acked>>

\* chat "/setinit <arg>"; the notice is written with an ASCII arrow
SetInit(c, arg) ==
  LET l == lobby[c]
      m == matchSetInit(arg)
  IN  /\ InLobby(c)
      /\ UNCHANGED memberVars
      /\ IF ~isGM(l, c)
           THEN Rejected(c, "GM only.") /\ UNCHANGED encounter
         ELSE IF m = None
           THEN Rejected(c, "Usage: /setinit <name> <number>") /\ UNCHANGED encounter
         ELSE /\ encounter' = [encounter EXCEPT ![l].order =
                                 sortByInit(upsert(@, m[1].name, m[1].init))]
              /\ out' = <<ToRoom(l, "system",
                                 "Initiative set: " \o m[1].name \o " -> " \o ToString(m[1].init))>> \o
                        emitState(l)
      /\ UNCHANGED <<connVars, mongo, fault, messages, rolls, characters, map, campaign, settings, acked>>

\* send(`Turn: ${order[turnIndex].name}`); emitState(): naming an entry the
\* array does not hold throws, and the handler ends without a message
TurnNotice(l, order, turnIndex) ==
  IF (turnIndex + 1) \in DOMAIN order
    THEN <<ToRoom(l, "system", "Turn: " \o order[turnIndex + 1].name)>> \o emitState(l)
    ELSE << >>

\* chat "/next"
NextTurn(c) ==
  LET l == lobby[c]
      e == encounter[l]
  IN  /\ InLobby(c)
      /\ UNCHANGED memberVars
      /\ IF ~isGM(l, c)
           THEN Rejected(c, "GM only.") /\ UNCHANGED encounter
         ELSE IF ~e.active \/ Len(e.order) = 0
           THEN Rejected(c, "No active encounter.") /\ UNCHANGED encounter
         ELSE /\ encounter' = [encounter EXCEPT ![l].turnIndex = advance(e.turnIndex, Len(e.order))]
              /\ out' = TurnNotice(l, e.order, encounter'[l].turnIndex)
      /\ UNCHANGED <<connVars, mongo, fault, messages, rolls, characters, map, campaign, settings, acked>>

\* chat "/endencounter"
EndEncounter(c) ==
  LET l == lobby[c]
  IN  /\ InLobby(c)
      /\ UNCHANGED memberVars
      /\ IF ~isGM(l, c)
           THEN Rejected(c, "GM only.") /\ UNCHANGED encounter
         ELSE /\ encounter' = [encounter EXCEPT ![l] = [active |-> FALSE, order |-> << >>, turnIndex |-> 0]]
              /\ out' = <<ToRoom(l, "system", "Encounter ended.")>> \o emitState(l)
      /\ UNCHANGED <<connVars, mongo, fault, messages, rolls, characters, map, campaign, settings, acked>>

\* ---------------------------------------------------------- specifications
NextMembers ==
  \/ \E c \in Conns, n \in {"Ann"} : Identify(c, n)
  \/ \E c \in Conns, p \in {"", "no"} : JoinRejected(c, "", p)
  \/ \E c \in Conns, l \in {"", "keep"} : JoinDirect(c, l, "")
  \/ \E c \in Conns : JoinDirect(c, "", "pw")
  \/ \E c \in Conns : JoinSetPassword(c, "", "pw")
  \/ \E c \in Conns : JoinResume(c)
  \/ \E c \in Conns : JoinWriteFailed(c)
  \/ \E c \in Conns : Disconnect(c)
  \/ \E c \in Conns, n \in {"Ann"} : Kick(c, n)

InitUp == Init /\ mongo = "up"

SpecMembers == InitUp /\ [][NextMembers]_vars

InitOff == Init /\ mongo = "off"

NextConsent ==
  \/ \E c \in Conns, n \in {"Ann"} : Identify(c, n)
  \/ \E c \in Conns : JoinDirect(c, "tavern", "")
  \/ \E c \in Conns : Disconnect(c)
  \/ \E c \in Conns : CampaignStart(c)
  \/ \E c \in Conns, id \in {"s_intro", "s_nowhere"} : CampaignSceneSet(c, id)
  \/ \E c \in Conns, id \in {"c_intro_tavern", "c_nowhere"} : ChoiceRequest(c, id)
  \/ \E c \in Conns : ChoiceAck(c)
  \/ \E c \in Conns : ChoiceForce(c)

SpecConsent == InitOff /\ [][NextConsent]_vars

\* the payloads the map events are tried with
Dims == {<< <<100>>, <<3>> >>}
Cols == {<<1>>, <<99>>}

NextMap ==
  \/ \E c \in Conns, n \in {"Ann"} : Identify(c, n)
  \/ \E c \in Conns : JoinDirect(c, "tavern", "")
  \/ \E c \in Conns, d \in Dims : MapInit(c, d[1], d[2])
  \/ \E c \in Conns, x \in Cols, val \in BOOLEAN : MapSetTile(c, x, <<0>>, val)
  \/ \E c \in Conns : MapClear(c)
  \/ \E c \in Conns : TokenAdd(c, "t1", "", "")

SpecMap == InitOff /\ [][NextMap]_vars

NextTokens ==
  \/ \E c \in Conns, n \in {"Ann"} : Identify(c, n)
  \/ \E c \in Conns : JoinDirect(c, "tavern", "")
  \/ \E c \in Conns : CampaignStart(c)
  \/ \E c \in Conns, x \in Cols : MapSetTile(c, x, <<0>>, TRUE)
  \/ \E c \in Conns : TokenAdd(c, "t1", "", "")
  \/ \E c \in Conns, x \in Cols : TokenMove(c, "t1", x, << >>)

SpecTokens == InitOff /\ [][NextTokens]_vars

\* the arguments /setinit is tried with
Inits == {<<"orc", 9>>, <<"orc", 5>>, <<"elf", 5>>, <<"imp", 5>>}

NextEncounter ==
  \/ \E c \in Conns, n \in {"Ann"} : Identify(c, n)
  \/ \E c \in Conns : JoinDirect(c, "tavern", "")
  \/ \E c \in Conns : StartEncounter(c)
  \/ \E c \in Conns, a \in Inits : SetInit(c, SetInitArg(a[1], <<a[2]>>))
  \/ \E c \in Conns : SetInit(c, SetInitArg("orc", << >>))
  \/ \E c \in Conns : NextTurn(c)
  \/ \E c \in Conns : EndEncounter(c)

SpecEncounter == InitOff /\ [][NextEncounter]_vars

\* the choice ids the campaign events are tried with
Picks == {"c_intro_tavern", "c_nowhere"}

NextPick ==
  \/ \E c \in Conns, n \in {"Ann"} : Identify(c, n)
  \/ \E c \in Conns : JoinDirect(c, "tavern", "")
  \/ \E c \in Conns : Disconnect(c)
  \/ \E c \in Conns, id \in Picks : ChoicePick(c, id)

SpecPick == InitOff /\ [][NextPick]_vars

\* -------------------------------------------------------------- properties
\* socket c is connected and recorded in the members map of its lobby
Member(c) == open[c] /\ lobby[c] # NoLobby /\ c \in DOMAIN users[lobby[c]]

\* that member's recorded display name is, or is not, the lobby's gm
GMMember(c) == Member(c) /\ gm[lobby[c]] = Some(users[lobby[c]][c])
NonGMMember(c) == Member(c) /\ gm[lobby[c]] # Some(users[lobby[c]][c])

\* a non-GM member of a lobby whose GM is another connected member
Player(c) == NonGMMember(c) /\ \E g \in Conns : g # c /\ GMMember(g)

\* the step's only message is an error to socket c
ErrorOnlyTo(c) == Len(out') = 1 /\ out'[1].ev = "error_message" /\ out'[1].sock = c

\* the connected members of l recorded under a name other than the gm's
NonGMEntries(l) == {k \in DOMAIN users[l] : open[k] /\ gm[l] # Some(users[l][k])}

\* C1: in every reachable state no two entries of a lobby's members map
\* carry the same display name.
C1_UniqueNames ==
  \A l \in DOMAIN users : \A a, b \in DOMAIN users[l] :
    users[l][a] = users[l][b] => a = b

\* two connections that both asked for "Ann" sit in one lobby
C1_Suffixed ==
  \E l \in DOMAIN users : \E a, b \in DOMAIN users[l] :
    a # b /\ users[l][a] = "Ann" /\ users[l][b] = "Ann2"

\* C2: an ack by a non-GM member (the GM being connected) that completes the set of acks (every
\* connected non-GM member has now acked the pending request) clears the
\* request and moves currentSceneId to its target when that scene exists.
C2_QuorumAckCommits ==
  [][\A c \in Conns :
       (/\ Player(c)
        /\ ChoiceAck(c)
        /\ settings[lobby[c]].pending # None
        /\ NonGMEntries(lobby[c]) \subseteq (acked[lobby[c]] \cup {c}))
       => /\ settings'[lobby[c]].pending = None
          /\ ScenesWithId(lobby[c], settings[lobby[c]].pending[1].to) # {}
               => campaign'[lobby[c]].currentSceneId = settings[lobby[c]].pending[1].to]_vars

\* C3: a step of a non-GM member (the GM being connected) changes currentSceneId only when a request
\* is pending and its approval set, with the member's own name, holds the
\* name of every connected non-GM member.
C3_NoLoneAdvance ==
  [][\A c \in Conns :
       (/\ Player(c)
        /\ \E id \in Picks : ChoicePick(c, id)
        /\ campaign'[lobby[c]].currentSceneId # campaign[lobby[c]].currentSceneId)
       => /\ settings[lobby[c]].pending # None
          /\ \A k \in NonGMEntries(lobby[c]) :
               users[lobby[c]][k] \in
                 (settings[lobby[c]].pending[1].approvals \cup {users[lobby[c]][c]})]_vars

\* C4: with a request pending, campaign_choice_force by the GM clears the
\* request and moves currentSceneId to its target when that scene exists;
\* by a non-GM member (the GM being connected) it changes neither and the
\* issuer gets an error.
C4_ForceGMOnly ==
  [][\A c \in Conns :
       /\ (GMMember(c) /\ isGM(lobby[c], c) /\ settings[lobby[c]].pending # None /\ ChoiceForce(c))
          => /\ settings'[lobby[c]].pending = None
             /\ ScenesWithId(lobby[c], settings[lobby[c]].pending[1].to) # {}
                  => campaign'[lobby[c]].currentSceneId = settings[lobby[c]].pending[1].to
       /\ (Player(c) /\ settings[lobby[c]].pending # None /\ ChoiceForce(c))
          => /\ campaign'[lobby[c]].currentSceneId = campaign[lobby[c]].currentSceneId
             /\ settings'[lobby[c]].pending = settings[lobby[c]].pending
             /\ ErrorOnlyTo(c)]_vars

\* C5: map_init, map_set and map_clear by a non-GM member (the GM being
\* connected), whatever that member sent before, leave the map
\* unchanged and produce nothing but an error to the issuer.
C5_MapGMOnly ==
  [][\A c \in Conns :
       (/\ Player(c)
        /\ \/ \E d \in Dims : MapInit(c, d[1], d[2])
           \/ \E x \in Cols, val \in BOOLEAN : MapSetTile(c, x, <<0>>, val)
           \/ MapClear(c))
       => /\ UNCHANGED map
          /\ ErrorOnlyTo(c)]_vars

\* the grid of m has m.h rows of m.w cells, both within 5..60
WellFormed(m) ==
  /\ m.w \in 5..60 /\ m.h \in 5..60
  /\ DOMAIN m.tiles = 0..(m.h - 1)
  /\ \A y \in DOMAIN m.tiles : DOMAIN m.tiles[y] = 0..(m.w - 1)

\* the dimension a request r must end as: 20 when absent or zero, else r
\* brought into 5..60
Expected(r) ==
  IF r = << >> \/ r[1] = 0 THEN 20 ELSE IF r[1] < 5 THEN 5 ELSE IF r[1] > 60 THEN 60 ELSE r[1]

\* C6: every map is well formed in every reachable state, and a map_init the
\* server accepts as the GM's yields the clamped dimensions (100 gives 60), a
\* grid of open cells only and no tokens.
C6_GridShape ==
  /\ [](\A l \in DOMAIN map : WellFormed(map[l]))
  /\ [][\A c \in Conns, d \in Dims :
          (InLobby(c) /\ isGM(lobby[c], c) /\ MapInit(c, d[1], d[2]))
          => /\ map'[lobby[c]].w = Expected(d[1])
             /\ map'[lobby[c]].h = Expected(d[2])
             /\ d[1] = <<100>> => map'[lobby[c]].w = 60
             /\ \A y \in DOMAIN map'[lobby[c]].tiles : \A x \in DOMAIN map'[lobby[c]].tiles[y] :
                  map'[lobby[c]].tiles[y][x] = 0
             /\ map'[lobby[c]].tokens = << >>]_vars

\* a map_init asking for 100x3 has just been applied
C6_Resized ==
  \E l \in DOMAIN map :
    /\ map[l].w = 60 /\ map[l].h = 5
    /\ out # << >> /\ out[1] = ToRoom(l, "system", "Map set to 60x5")

\* token_move of socket c for token id ends on a wall cell of its lobby
OntoWall(c, id, x, y) ==
  /\ InLobby(c)
  /\ id \in DOMAIN map[lobby[c]].tokens
  /\ TileAt(map[lobby[c]],
            Max(0, Min(map[lobby[c]].w - 1, IF x = << >> THEN 0 ELSE x[1])),
            Max(0, Min(map[lobby[c]].h - 1, IF y = << >> THEN 0 ELSE y[1]))) = 1

\* C7 as stated: a token_move onto a wall cell leaves the map unchanged and
\* produces no message at all, neither a broadcast nor an error.
C7_WallMoveSilent ==
  [][\A c \in Conns, x \in Cols :
       (OntoWall(c, "t1", x, << >>) /\ TokenMove(c, "t1", x, << >>))
       => UNCHANGED map /\ out' = << >>]_vars

\* C7 amended: a token_move onto a wall cell leaves the map unchanged and
\* broadcasts nothing; it produces no message when the issuer may move the
\* token (the GM, or the owner once players are unlocked), and otherwise only
\* the lock or ownership error to the issuer.
C7_WallMoveUnchanged ==
  [][\A c \in Conns, x \in Cols :
       (OntoWall(c, "t1", x, << >>) /\ TokenMove(c, "t1", x, << >>))
       => /\ UNCHANGED map
          /\ \A i \in DOMAIN out' : out'[i].room = ""
          /\ LET l == lobby[c]
                 asGM == gm[l] = Some(username[c])
                 lockedOut == settings[l].lockedUntilStart /\ ~settings[l].campaignStarted /\ ~asGM
                 foreign == ~asGM /\ map[l].tokens["t1"].owner # username[c]
             IN  IF lockedOut
                   THEN out' = <<ToSock(c, "error_message", "Campaign not started by GM yet.")>>
                 ELSE IF foreign
                   THEN out' = <<ToSock(c, "error_message", "Only owner or GM can move this token.")>>
                 ELSE out' = << >>]_vars

\* token t1 stands on (0,0) beside a wall on (1,0) and the last event
\* produced no message
C7_Blocked ==
  \E l \in DOMAIN map :
    /\ "t1" \in DOMAIN map[l].tokens
    /\ map[l].tokens["t1"].x = 0 /\ map[l].tokens["t1"].y = 0
    /\ map[l].tiles[0][1] = 1
    /\ out = << >>

\* C8: whenever encounter.order is non-empty, turnIndex is one of its
\* indices, 0 <= turnIndex < length(order).
C8_TurnIndexValid ==
  \A l \in DOMAIN encounter :
    encounter[l].order # << >> =>
      0 <= encounter[l].turnIndex /\ encounter[l].turnIndex < Len(encounter[l].order)

\* the turn has been advanced to the last of three combatants
C8_LastOfThree ==
  \E l \in DOMAIN encounter :
    /\ Len(encounter[l].order) = 3 /\ encounter[l].turnIndex = 2
    /\ out # << >> /\ out[1].ev = "system" /\ out[1].data = "Turn: " \o encounter[l].order[3].name

\* the position of name n in order o (0 when absent)
PosOf(o, n) == IF \E i \in DOMAIN o : o[i].name = n THEN CHOOSE i \in DOMAIN o : o[i].name = n ELSE 0

\* C9: a /setinit <name> <n> the server accepts as the GM's adds exactly one
\* entry when the name was absent and updates the entry in place when it was
\* present, keeps names pairwise distinct and every other entry's value, and
\* leaves order sorted by non-increasing initiative with entries of equal
\* initiative in their prior relative order.
C9_SetInitUpsert ==
  [][\A c \in Conns, a \in Inits :
       (InLobby(c) /\ isGM(lobby[c], c) /\ SetInit(c, SetInitArg(a[1], <<a[2]>>)))
       => LET old == encounter[lobby[c]].order
              new == encounter'[lobby[c]].order
          IN  /\ Len(new) = Len(old) + (IF PosOf(old, a[1]) = 0 THEN 1 ELSE 0)
              /\ \A i, j \in DOMAIN new : new[i].name = new[j].name => i = j
              /\ PosOf(new, a[1]) # 0 /\ new[PosOf(new, a[1])].init = a[2]
              /\ \A i \in DOMAIN old : old[i].name # a[1] => \E j \in DOMAIN new : new[j] = old[i]
              /\ \A i, j \in DOMAIN new : i < j => new[i].init >= new[j].init
              /\ \A i, j \in DOMAIN old :
                   (i < j /\ new[PosOf(new, old[i].name)].init = new[PosOf(new, old[j].name)].init)
                   => PosOf(new, old[i].name) < PosOf(new, old[j].name)
              /\ \A i \in DOMAIN old :
                   new[PosOf(new, a[1])].init = new[PosOf(new, old[i].name)].init
                   /\ PosOf(old, a[1]) = 0
                   => PosOf(new, old[i].name) < PosOf(new, a[1])]_vars

\* three combatants, the last two tied on 5 in the order imp, elf, after orc
\* was raised to 9
C9_TiedPair ==
  \E l \in DOMAIN encounter :
    /\ Len(encounter[l].order) = 3
    /\ encounter[l].order[1] = [name |-> "orc", init |-> 9]
    /\ encounter[l].order[2] = [name |-> "imp", init |-> 5]
    /\ encounter[l].order[3] = [name |-> "elf", init |-> 5]
    /\ out # << >> /\ out[1].data = "Initiative set: orc -> 9"

\* C10: /next by the GM on an active encounter with n >= 1 combatants sets
\* turnIndex to (turnIndex + 1) mod n; on an inactive or empty encounter, or
\* issued by a non-GM member (the GM being connected), it leaves the
\* encounter unchanged and the issuer gets an error.
C10_NextTurn ==
  [][\A c \in Conns :
       LET e == encounter[lobby[c]]
       IN  /\ (GMMember(c) /\ isGM(lobby[c], c) /\ e.active /\ Len(e.order) >= 1 /\ NextTurn(c))
              => encounter'[lobby[c]] = [e EXCEPT !.turnIndex = (e.turnIndex + 1) % Len(e.order)]
           /\ (GMMember(c) /\ isGM(lobby[c], c) /\ (~e.active \/ Len(e.order) = 0) /\ NextTurn(c))
              => UNCHANGED encounter /\ ErrorOnlyTo(c)
           /\ (Player(c) /\ NextTurn(c))
              => UNCHANGED encounter /\ ErrorOnlyTo(c)]_vars

\* ------------------------------------------------- joining and the GM seat
\* the names identify is tried with: a plain one and one of blanks only
JoinNames == {"Ann", " "}

NextJoin ==
  \/ \E c \in Conns, n \in JoinNames : Identify(c, n)
  \/ \E c \in Conns, p \in {"", "pw"} : JoinDirect(c, "", p)
  \/ \E c \in Conns : JoinSetPassword(c, "", "pw")
  \/ \E c \in Conns : Disconnect(c)

SpecJoin == InitOff /\ [][NextJoin]_vars

\* the step completes a join_lobby of socket c into lobby l
JoinedBy(c, l) == out' # << >> /\ out'[1] = ToSock(c, "joined", l)

\* C11: a join that completes in a lobby that did not exist leaves the joiner
\* recorded as a member whose name is the lobby's gm; a completed join that
\* gives a password to an existing lobby without one leaves gm as it was when
\* the lobby had a GM and makes the joiner GM when it had none.
C11_FirstJoinerIsGM ==
  [][\A c \in Conns :
       /\ ("tavern" \notin DOMAIN gm /\ JoinedBy(c, "tavern"))
          => /\ c \in DOMAIN users'["tavern"]
             /\ gm'["tavern"] = Some(users'["tavern"][c])
       /\ (/\ "tavern" \in DOMAIN gm
           /\ passwordHash["tavern"] = NoHash
           /\ passwordHash'["tavern"] # NoHash
           /\ JoinedBy(c, "tavern"))
          => IF gm["tavern"] # None /\ gm["tavern"] # Some("")
               THEN gm'["tavern"] = gm["tavern"]
               ELSE gm'["tavern"] = Some(users'["tavern"][c])]_vars

\* name n is recorded in lobby l for a socket that is connected
HeldIn(l, n) == \E k \in DOMAIN At(users, l, << >>) : open[k] /\ users[l][k] = n

\* the name a joiner asking for n is due in lobby l: n when no connected
\* member holds it, else n with the smallest suffix from 2 that is free
DueName(l, n) ==
  IF ~HeldIn(l, n) THEN n
  ELSE n \o ToString(CHOOSE k \in 2..(MaxConns + 2) :
                       /\ ~HeldIn(l, n \o ToString(k))
                       /\ \A j \in 2..(k - 1) : HeldIn(l, n \o ToString(j)))

\* C12: a join that completes records the joiner under its candidate name
\* (the identified name, "Anon" when that is empty) when no connected member
\* of the lobby holds it, and otherwise under that name followed by the
\* smallest integer from 2 that gives an unused name.
C12_SmallestSuffix ==
  [][\A c \in Conns, l \in {"tavern", "keep"} :
       JoinedBy(c, l)
       => users'[l][c] = DueName(l, OrElse(username[c], "Anon"))]_vars

\* ------------------------------------------------- the GM seat and the password
NextSeat ==
  \/ \E c \in Conns, n \in JoinNames : Identify(c, n)
  \/ \E c \in Conns, p \in {"", "pw"} : JoinDirect(c, "", p)
  \/ \E c \in Conns : JoinSetPassword(c, "", "pw")
  \/ \E c \in Conns, a \in {"", "key"} : SetPass(c, a)
  \/ \E c \in Conns, n \in {"Ann", "Anon"} : Kick(c, n)
  \/ \E c \in Conns : Disconnect(c)

SpecSeat == InitOff /\ [][NextSeat]_vars

\* C13: once a lobby's gm field holds a value, no step changes or clears it.
C13_GMNeverChanges == [][\A l \in DOMAIN gm :
     (gm[l] # None) => (l \in DOMAIN gm' /\ gm'[l] = gm[l])]_vars

\* the same for a gm that is a non-empty name
C13_NamedGMNeverChanges == [][\A l \in DOMAIN gm :
     HasGM(l) => (l \in DOMAIN gm' /\ gm'[l] = gm[l])]_vars

\* C14: while a lobby has a password, /setpass from a member who is not its
\* GM is answered with an error and leaves passwordHash alone; /setpass with
\* an argument from the GM replaces it; no join changes it.
C14_PasswordGMOnly == [][\A c \in Conns :
     /\ \A a \in {"", "key"} :
          (InLobby(c) /\ passwordHash[lobby[c]] # NoHash /\ Player(c) /\ SetPass(c, a))
             => (ErrorOnlyTo(c) /\ passwordHash' = passwordHash)
     /\ (InLobby(c) /\ passwordHash[lobby[c]] # NoHash /\ isGM(lobby[c], c) /\ SetPass(c, "key"))
             => passwordHash'[lobby[c]] = hashPass("key")
     /\ \A l \in DOMAIN passwordHash :
          (passwordHash[l] # NoHash /\ JoinedBy(c, l)) => passwordHash'[l] = passwordHash[l]]_vars

\* -------------------------------------------------------------------- dice
\* the character of s at position i, "" outside s
Ch(s, i) == IF i >= 1 /\ i <= Len(s) THEN SubSeq(s, i, i) ELSE ""

\* s.slice(a - 1, b) for positions counted from 1
Slice(s, a, b) == IF a >= 1 /\ a <= b /\ b <= Len(s) THEN SubSeq(s, a, b) ELSE ""

IsDigit(ch) == ch \in {"0", "1", "2", "3", "4", "5", "6", "7", "8", "9"}

DigitVal(ch) ==
  CASE ch = "1" -> 1 [] ch = "2" -> 2 [] ch = "3" -> 3 [] ch = "4" -> 4 [] ch = "5" -> 5
    [] ch = "6" -> 6 [] ch = "7" -> 7 [] ch = "8" -> 8 [] ch = "9" -> 9 [] OTHER -> 0

\* the end of the greedy digit run \d* that starts at position i
RECURSIVE DigitsEnd(_, _)
DigitsEnd(s, i) == IF IsDigit(Ch(s, i)) THEN DigitsEnd(s, i + 1) ELSE i

\* parseInt(d, 10) of a digit string
RECURSIVE parseDigits(_)
parseDigits(d) ==
  IF Len(d) = 0 THEN 0
  ELSE 10 * parseDigits(Slice(d, 1, Len(d) - 1)) + DigitVal(Ch(d, Len(d)))

\* parseInt(t, 10) of a digit string with an optional sign
parseInt(t) ==
  IF Ch(t, 1) = "-" THEN 0 - parseDigits(Slice(t, 2, Len(t)))
  ELSE IF Ch(t, 1) = "+" THEN parseDigits(Slice(t, 2, Len(t)))
  ELSE parseDigits(t)

\* s.replace(/\s+/g, '')
RECURSIVE stripSpaces(_)
stripSpaces(s) ==
  IF Len(s) = 0 THEN ""
  ELSE (IF IsSpace(s, 1) THEN "" ELSE Slice(s, 1, 1)) \o stripSpaces(Slice(s, 2, Len(s)))

\* DICE_ADV = /^(\d*)d(\d+)(k[hl](\d+))?([+\-]\d+)?$/i matched from the left
\* on a lower-cased expr.  p1 is the end of (\d*), p2 of (\d+), p3 of the
\* optional keep part and p4 of the optional modifier: << >> for null,
\* otherwise the groups, an unmatched group being ""
Groups(expr, p1, p2, p3, p4) ==
  IF Ch(expr, p1) = "d" /\ p2 > p1 + 1 /\ p4 = Len(expr) + 1
    THEN <<[g1 |-> Slice(expr, 1, p1 - 1),
            g2 |-> Slice(expr, p1 + 1, p2 - 1),
            g3 |-> Slice(expr, p2, p3 - 1),
            g4 |-> Slice(expr, p2 + 2, p3 - 1),
            g5 |-> Slice(expr, p3, p4 - 1)]>>
    ELSE << >>

\* the end of ([+\-]\d+)? at position p
AfterMod(expr, p) ==
  IF Ch(expr, p) \in {"+", "-"} /\ IsDigit(Ch(expr, p + 1)) THEN DigitsEnd(expr, p + 1) ELSE p

\* the end of (k[hl](\d+))? at position p
AfterKeep(expr, p) ==
  IF Ch(expr, p) = "k" /\ Ch(expr, p + 1) \in {"h", "l"} /\ IsDigit(Ch(expr, p + 2))
    THEN DigitsEnd(expr, p + 2) ELSE p

MatchMod(expr, p1, p2, p3) == Groups(expr, p1, p2, p3, AfterMod(expr, p3))
MatchKeep(expr, p1, p2) == MatchMod(expr, p1, p2, AfterKeep(expr, p2))
MatchSides(expr, p1) == MatchKeep(expr, p1, DigitsEnd(expr, p1 + 1))

\* expr.match(DICE_ADV)
DICE_ADV(expr) == MatchSides(expr, DigitsEnd(expr, 1))

\* Math.random() takes the values 0/RandDen .. (RandDen-1)/RandDen
RandDen == 4
MaxDice == 3
Randoms == [1..MaxDice -> 0..(RandDen - 1)]

\* 1 + Math.floor(Math.random() * sides) for the i-th die
Die(rnd, i, sides) == 1 + ((rnd[i] * sides) \div RandDen)

RECURSIVE Sum(_)
Sum(q) == IF Len(q) = 0 THEN 0 ELSE q[1] + Sum(Tail(q))

\* the position of the first largest (high) or smallest element of q
Best(q, high) ==
  CHOOSE i \in 1..Len(q) :
    /\ \A j \in 1..Len(q) : IF high THEN q[j] <= q[i] ELSE q[j] >= q[i]
    /\ \A j \in 1..(i - 1) : q[j] # q[i]

\* used.sort((a,b) => keepMode === 'h' ? b-a : a-b)
RECURSIVE sortDice(_, _)
sortDice(q, high) ==
  IF Len(q) = 0 THEN << >>
  ELSE LET i == Best(q, high)
       IN  <<q[i]>> \o sortDice(SubSeq(q, 1, i - 1) \o SubSeq(q, i + 1, Len(q)), high)

\* used.slice(0, keepN)
slice0(q, n) == SubSeq(q, 1, Min(n, Len(q)))

Invalid == "Invalid dice. Try d20, 3d6+2, 4d6kh3, adv/dis."
TooBig == "Too big (<=100 dice, <=1000 sides)."
KeepRange == "Keep out of range."
MaxCount == 100
MaxSides == 1000

\* the object rollAdvanced returns
rollResult(exprRaw, dice, used, mod) ==
  [ok |-> TRUE, expression |-> exprRaw, rolls |-> dice, used |-> used,
   modifier |-> mod, total |-> Sum(used) + mod]

\* let used = [...rolls]; if (keepMode && keepN) { sort; slice }
keepDice(dice, keepMode, keepN) ==
  IF keepMode # "" /\ keepN # 0 THEN slice0(sortDice(dice, keepMode = "h"), keepN) ELSE dice

\* rollAdvanced from the limit tests on; a null keepN is 0, which the code
\* tells apart from no number only by truthiness
rollChecked(exprRaw, rnd, count, sides, keepMode, keepN, mod) ==
  IF count > MaxCount \/ sides > MaxSides THEN [ok |-> FALSE, message |-> TooBig]
  ELSE IF keepN # 0 /\ (keepN < 1 \/ keepN > count) THEN [ok |-> FALSE, message |-> KeepRange]
  ELSE rollResult(exprRaw, [i \in 1..count |-> Die(rnd, i, sides)],
                  keepDice([i \in 1..count |-> Die(rnd, i, sides)], keepMode, keepN), mod)

\* rollAdvanced from the match m on
rollMatched(exprRaw, rnd, m) ==
  IF m = << >> THEN [ok |-> FALSE, message |-> Invalid]
  ELSE rollChecked(exprRaw, rnd,
                   Max(1, parseInt(OrElse(m[1].g1, "1"))),
                   parseInt(m[1].g2),
                   Slice(m[1].g3, 2, 2),
                   IF m[1].g4 # "" THEN parseInt(m[1].g4) ELSE 0,
                   IF m[1].g5 # "" THEN parseInt(m[1].g5) ELSE 0)

\* rollAdvanced on the normalised expression; the aliases return
\* rollAdvanced('2d20kh1') and rollAdvanced('2d20kl1'), texts that
\* normalise to themselves
rollNormalised(exprRaw, rnd, expr) ==
  IF expr \in {"adv", "d20adv"} THEN rollMatched("2d20kh1", rnd, DICE_ADV("2d20kh1"))
  ELSE IF expr \in {"dis", "d20dis"} THEN rollMatched("2d20kl1", rnd, DICE_ADV("2d20kl1"))
  ELSE rollMatched(exprRaw, rnd, DICE_ADV(expr))

\* rollAdvanced(exprRaw) with the values rnd of Math.random: the returned
\* object, or the message of the Error thrown (ok false)
rollAdvanced(exprRaw, rnd) ==
  rollNormalised(exprRaw, rnd, toLowerCase(stripSpaces(safe(exprRaw, 40))))

\* ----------------------------------------------------------- chat and rolls
MaxLog == 1

\* socket.on('chat') for a text that is no command
Chat(c, text) ==
  LET l == lobby[c]
      msg == safe(text, 500)
      payload == [user |-> username[c], text |-> msg]
  IN  /\ InLobby(c)
      /\ UNCHANGED memberVars
      /\ Ch(msg, 1) # "/"
      /\ IF msg = ""
           THEN out' = << >> /\ UNCHANGED messages
         ELSE IF Locked(c)
           THEN Rejected(c, "Campaign not started by GM yet.") /\ UNCHANGED messages
         ELSE /\ Len(messages[l]) < MaxLog
              /\ out' = <<ToRoom(l, "chat", payload)>>
              /\ messages' = [messages EXCEPT ![l] = Append(@, payload)]
      /\ UNCHANGED <<connVars, mongo, fault, rolls, characters, encounter, map, campaign, settings, acked>>

\* chat "/me <argStr>"
Me(c, argStr) ==
  /\ InLobby(c)
  /\ out' = <<ToRoom(lobby[c], "chat",
                     [user |-> username[c],
                      text |-> "*" \o OrElse(argStr, "does something dramatic") \o "*"])>>
  /\ UNCHANGED <<connVars, mongo, fault, memberVars, gameVars>>

\* the try block shared by socket.on('roll') and chat "/roll" with res the
\* outcome of rollAdvanced: the roll is broadcast and logged, or the thrown
\* message goes back to the socket
RollOrError(c, res) ==
  IF res.ok
    THEN /\ Len(rolls[lobby[c]]) < MaxLog
         /\ out' = <<ToRoom(lobby[c], "roll", [user |-> username[c], res |-> res, lobby |-> lobby[c]])>>
         /\ rolls' = [rolls EXCEPT ![lobby[c]] =
                        Append(@, [user |-> username[c], res |-> res, lobby |-> lobby[c]])]
    ELSE Rejected(c, res.message) /\ UNCHANGED rolls

\* socket.on('roll')
Roll(c, expression, rnd) ==
  /\ InLobby(c)
  /\ IF Locked(c)
       THEN Rejected(c, "Campaign not started by GM yet.") /\ UNCHANGED rolls
       ELSE RollOrError(c, rollAdvanced(OrElse(expression, "d20"), rnd))
  /\ UNCHANGED <<connVars, mongo, fault, memberVars, messages, characters, encounter, map, campaign, settings, acked>>

\* chat "/roll <argStr>"
RollCommand(c, argStr, rnd) ==
  /\ InLobby(c)
  /\ IF Locked(c)
       THEN Rejected(c, "Campaign not started by GM yet.") /\ UNCHANGED rolls
       ELSE RollOrError(c, rollAdvanced(OrElse(argStr, "d20"), rnd))
  /\ UNCHANGED <<connVars, mongo, fault, memberVars, messages, characters, encounter, map, campaign, settings, acked>>

\* socket.on('token_remove')
TokenRemove(c, id) ==
  LET l == lobby[c]
  IN  /\ InLobby(c)
      /\ UNCHANGED memberVars
      /\ IF Locked(c)
           THEN Rejected(c, "Campaign not started by GM yet.") /\ UNCHANGED map
         ELSE IF id \notin DOMAIN map[l].tokens
           THEN out' = << >> /\ UNCHANGED map
         ELSE IF ~isGM(l, c) /\ map[l].tokens[id].owner # username[c]
           THEN out' = << >> /\ UNCHANGED map
         ELSE /\ map' = [map EXCEPT ![l].tokens = MapDelete(@, id)]
              /\ out' = emitMap(l)
      /\ UNCHANGED <<connVars, mongo, fault, messages, rolls, characters, encounter, campaign, settings, acked>>

\* socket.on('ping')
Ping(c, x, y) ==
  LET l == lobby[c]
      cx == clamp(parseIntOr(x, 0), 0, map[l].w - 1)
      cy == clamp(parseIntOr(y, 0), 0, map[l].h - 1)
  IN  /\ InLobby(c)
      /\ UNCHANGED memberVars
      /\ IF Locked(c)
           THEN Rejected(c, "Campaign not started by GM yet.")
           ELSE out' = <<ToRoom(l, "map_ping", [x |-> cx, y |-> cy, by |-> username[c]])>>
      /\ UNCHANGED <<connVars, mongo, fault, gameVars>>

\* ------------------------------------------------------ the start lock
NoRandom == [i \in 1..MaxDice |-> 0]

\* the lobby before the campaign starts; clients identify before they join
NextLock ==
  \/ \E c \in Conns : lobby[c] = NoLobby /\ Identify(c, "Ann")
  \/ \E c \in Conns : JoinDirect(c, "tavern", "")
  \/ \E c \in Conns : Chat(c, "hi")
  \/ \E c \in Conns : Me(c, "waves")
  \/ \E c \in Conns : Roll(c, "d1", NoRandom)
  \/ \E c \in Conns : RollCommand(c, "d1", NoRandom)
  \/ \E c \in Conns : TokenAdd(c, "t1", "", "")
  \/ \E c \in Conns : TokenMove(c, "t1", <<1>>, << >>)
  \/ \E c \in Conns : TokenRemove(c, "t1")
  \/ \E c \in Conns : Ping(c, <<1>>, <<1>>)

SpecLock == InitOff /\ [][NextLock]_vars

\* one of the chat, roll, token or ping events from socket c
Gated(c) ==
  \/ Chat(c, "hi") \/ Me(c, "waves")
  \/ Roll(c, "d1", NoRandom) \/ RollCommand(c, "d1", NoRandom)
  \/ TokenAdd(c, "t1", "", "") \/ TokenMove(c, "t1", <<1>>, << >>) \/ TokenRemove(c, "t1")
  \/ Ping(c, <<1>>, <<1>>)

\* C15: while the lobby is locked until start, every chat, roll, token or
\* ping event from a non-GM member is answered with an error to that member
\* only and leaves the chat log, the roll log and the tokens alone.
C15_LockBlocksPlayers == [][\A c \in Conns :
     (InLobby(c) /\ isLockedForPlayers(lobby[c]) /\ Player(c) /\ Gated(c))
        => (ErrorOnlyTo(c) /\ UNCHANGED <<messages, rolls, map>>)]_vars

\* the same for every event of Gated other than /me
C15_LockBlocksOthers == [][\A c \in Conns :
     (InLobby(c) /\ isLockedForPlayers(lobby[c]) /\ Player(c) /\ Gated(c) /\ ~Me(c, "waves"))
        => (ErrorOnlyTo(c) /\ UNCHANGED <<messages, rolls, map>>)]_vars

\* ------------------------------------------------------- rolling the dice
\* dice expressions as a client may send them: those rollAdvanced accepts
\* and those it throws on
Exprs == {"d4", "2d4kh1+1", "3d2kl2-1", "2D4KL1", " 2d4 + 1", "adv", "0d4", "d0", "2d4kh0", ""}
BadExprs == {"200d6", "d2000", "d20kh2", "2d4kh3", "2x4", "d"}

NextDice ==
  \/ \E c \in Conns : JoinDirect(c, "tavern", "")
  \/ \E c \in Conns, e \in Exprs, rnd \in Randoms : Roll(c, e, rnd)
  \/ \E c \in Conns, e \in BadExprs : Roll(c, e, NoRandom)
  \/ \E c \in Conns, e \in {"dis", "d20kh2"} : RollCommand(c, e, NoRandom)

SpecDice == InitOff /\ [][NextDice]_vars

\* the dice expressions of Exprs that the grammar NdS[kh|kl K][+-M] accepts,
\* read as the grammar reads them: n dice (1 when omitted) of s sides,
\* keeping k (0 when there is no keep part), modifier m
Reading ==
  [text : {"d4"}, n : {1}, s : {4}, k : {0}, m : {0}] \cup
  [text : {"d20"}, n : {1}, s : {20}, k : {0}, m : {0}] \cup
  [text : {"2d4kh1+1"}, n : {2}, s : {4}, k : {1}, m : {1}] \cup
  [text : {"3d2kl2-1"}, n : {3}, s : {2}, k : {2}, m : {0 - 1}] \cup
  [text : {"2D4KL1"}, n : {2}, s : {4}, k : {1}, m : {0}] \cup
  [text : {" 2d4 + 1"}, n : {2}, s : {4}, k : {0}, m : {1}] \cup
  [text : {"3d4kh2"}, n : {3}, s : {4}, k : {2}, m : {0}] \cup
  [text : {"2d20kh1", "2d20kl1"}, n : {2}, s : {20}, k : {1}, m : {0}] \cup
  [text : {"0d4"}, n : {0}, s : {4}, k : {0}, m : {0}] \cup
  [text : {"d0"}, n : {1}, s : {0}, k : {0}, m : {0}] \cup
  [text : {"2d4kh0"}, n : {2}, s : {4}, k : {0}, m : {0}]

ReadingOf(text) == CHOOSE r \in Reading : r.text = text

\* the results of the rolls the last event broadcast
Rolled == {out[i].data.res : i \in {j \in DOMAIN out : out[j].ev = "roll"}}

\* a result has r.n rolls, each between 1 and r.s, and totals its used dice plus r.m
Sound(res, r) ==
  /\ Len(res.rolls) = r.n
  /\ \A i \in DOMAIN res.rolls : res.rolls[i] \in 1..r.s
  /\ res.total = Sum(res.used) + r.m

\* C16: every roll that is broadcast has as many dice as its expression
\* asks for (one when the count is omitted), each die between 1 and the
\* number of sides, and a total equal to the sum of the used dice plus the modifier.
C16_RollSound == \A res \in Rolled : Sound(res, ReadingOf(res.expression))

\* the same for the expressions that ask for at least one die of at least one side
C16_RollSoundPositive ==
  \A res \in Rolled :
    LET r == ReadingOf(res.expression)
    IN  (r.n >= 1 /\ r.s >= 1) => Sound(res, r)

\* expressions with more than 100 dice, more than 1000 sides, or a keep
\* count outside 1..count
OutOfBounds == {"200d6", "d2000", "d20kh2", "2d4kh3", "2d4kh0"}

\* socket c, allowed to roll, sends the roll event with expression e
Rolls(c, e) == InLobby(c) /\ ~Locked(c) /\ \E rnd \in Randoms : Roll(c, e, rnd)

\* C17: a roll whose count exceeds 100, whose sides exceed 1000 or whose keep
\* count is outside 1..count is rejected with an error whose text is not the
\* one a malformed expression gets; a malformed expression gets that one.
C17_BoundsRejected == [][\A c \in Conns :
     /\ \A e \in OutOfBounds :
          Rolls(c, e) => (ErrorOnlyTo(c) /\ out'[1].data # Invalid /\ rolls' = rolls)
     /\ \A e \in {"2x4", "d"} :
          Rolls(c, e) => (ErrorOnlyTo(c) /\ out'[1].data = Invalid /\ rolls' = rolls)]_vars

\* the same without the keep count 0
C17_StatedRejected == [][\A c \in Conns :
     /\ \A e \in OutOfBounds \ {"2d4kh0"} :
          Rolls(c, e) => (ErrorOnlyTo(c) /\ out'[1].data # Invalid /\ rolls' = rolls)
     /\ \A e \in {"2x4", "d"} :
          Rolls(c, e) => (ErrorOnlyTo(c) /\ out'[1].data = Invalid /\ rolls' = rolls)]_vars

\* ------------------------------------------------------ the storage mirror
InitMirror == Init /\ mongo \in {"up", "down"}

NextMirror ==
  \/ \E c \in Conns : Identify(c, "Ann")
  \/ \E c \in Conns, p \in {"", "pw"} : JoinDirect(c, "", p)
  \/ \E c \in Conns : JoinSetPassword(c, "", "pw")
  \/ \E c \in Conns : JoinResume(c)
  \/ \E c \in Conns : JoinWriteFailed(c)
  \/ \E c \in Conns : SetPass(c, "key")
  \/ \E c \in Conns : SetPassResume(c)
  \/ \E c \in Conns : SetPassWriteFailed(c)
  \/ \E c \in Conns : Disconnect(c)

SpecMirror == InitMirror /\ [][NextMirror]_vars

\* the users and gm lobby l has when the step ends
AfterStep(l) == [users |-> IF l \in DOMAIN users' THEN users'[l] ELSE << >>,
                 gm |-> IF l \in DOMAIN gm' THEN gm'[l] ELSE None]

StateBroadcast == \E i \in DOMAIN out' : out'[i].ev = "state"

\* C19: a password-setting join_lobby whose mirror write fails still records
\* the joiner as a member and broadcasts the lobby state, and a /setpass
\* whose mirror write fails still broadcasts; no client gets an error.
C19_MirrorFailureHarmless == [][\A c \in Conns :
     /\ ((mongo = "down" /\ JoinSetPassword(c, "", "pw")) \/ JoinWriteFailed(c))
          => (c \in DOMAIN users'["tavern"] /\ StateBroadcast)
     /\ ((mongo = "down" /\ InLobby(c) /\ passwordHash'[lobby[c]] # passwordHash[lobby[c]]
            /\ SetPass(c, "key")) \/ SetPassWriteFailed(c))
          => StateBroadcast
     /\ (JoinWriteFailed(c) \/ SetPassWriteFailed(c))
          => \A i \in DOMAIN out' : out'[i].ev # "error_message"]_vars

\* ------------------------------------------------------ malformed messages
\* socket.on('identify') for an event sent without a payload: destructuring
\* ({name}) of undefined throws before the body runs
IdentifyNoPayload(c) ==
  /\ open[c]
  /\ fault' = TRUE
  /\ out' = << >>
  /\ UNCHANGED <<connVars, mongo, memberVars, gameVars>>

\* socket.on('character_upsert'); sheet is << >> for an absent payload and
\* <<[name |-> n]>> for an object whose name field is n ("" when missing).
\* sheet?.name and sheet?.abilities tolerate the absent payload, the read of
\* sheet.archetype that follows throws on it.
CharacterUpsert(c, sheet) ==
  LET l == lobby[c]
      name == IF sheet = << >> THEN "" ELSE sheet[1].name
      target == safe(OrElse(name, username[c]), 24)
  IN  /\ InLobby(c)
      /\ UNCHANGED memberVars
      /\ IF ~isGM(l, c) /\ target # username[c]
           THEN Rejected(c, "You can only edit your own sheet.") /\ UNCHANGED <<characters, fault>>
         ELSE IF sheet = << >>
           THEN fault' = TRUE /\ out' = << >> /\ UNCHANGED characters
         ELSE /\ characters' = [characters EXCEPT ![l] = @ \cup {target}]
              /\ out' = <<ToRoom(l, "system", username[c] \o " updated " \o target \o "'s sheet"),
                          ToRoom(l, "characters", characters'[l])>> \o emitState(l)
              /\ UNCHANGED fault
      /\ UNCHANGED <<connVars, mongo, messages, rolls, encounter, map, campaign, settings, acked>>

\* chat "/roll <argStr>" as src/server.js handles it: no lock, and no try
\* around rollAdvanced, so its Error rejects the chat handler's promise
RollCommandNoCatch(c, argStr, rnd) ==
  /\ InLobby(c)
  /\ IF rollAdvanced(OrElse(argStr, "d20"), rnd).ok
       THEN RollOrError(c, rollAdvanced(OrElse(argStr, "d20"), rnd)) /\ UNCHANGED fault
       ELSE fault' = TRUE /\ out' = << >> /\ UNCHANGED rolls
  /\ UNCHANGED <<connVars, mongo, memberVars, messages, characters, encounter, map, campaign, settings, acked>>

Sheets == {<< >>, <<[name |-> ""]>>, <<[name |-> "Zed"]>>}

\* the handlers of part_001, and the /roll of src/server.js beside its own
NextFault ==
  \/ \E c \in Conns : Identify(c, "Ann")
  \/ \E c \in Conns : IdentifyNoPayload(c)
  \/ \E c \in Conns : JoinDirect(c, "", "")
  \/ \E c \in Conns, sheet \in Sheets : CharacterUpsert(c, sheet)
  \/ \E c \in Conns : RollCommand(c, "2x4", NoRandom)
  \/ \E c \in Conns : RollCommandNoCatch(c, "2x4", NoRandom)

SpecFault == InitOff /\ [][NextFault]_vars

\* C20: no inbound message makes an exception escape its handler.
C20_NoFault == fault = FALSE

\* ------------------------------------------------------------ refused joins
\* socket.on('join_lobby'), whichever way the handler goes
JoinLobby(c, rawLobby, password) ==
  \/ JoinRejected(c, rawLobby, password)
  \/ JoinDirect(c, rawLobby, password)
  \/ JoinSetPassword(c, rawLobby, password)

\* the lobby names and passwords join_lobby is tried with
JoinLobbies == {""}
JoinPasswords == {"", "no", "pw"}

NextBan ==
  \/ \E c \in Conns : lobby[c] = NoLobby /\ Identify(c, "Ann")
  \/ \E c \in Conns, l \in JoinLobbies, p \in JoinPasswords : JoinLobby(c, l, p)
  \/ \E c \in Conns : Ban(c, "Ann")
  \/ \E c \in Conns : Unban(c, "Ann")
  \/ \E c \in Conns : Disconnect(c)

SpecBan == InitOff /\ [][NextBan]_vars

\* the lobby a join_lobby for raw name r goes to
Asked(r) == IF r = "" THEN "tavern" ELSE r

\* a join_lobby of socket c to lobby l with password p is to be refused: the
\* name of c, case-folded, is banned there, or the lobby has a password and p
\* is absent or another one
Refused(c, l, p) ==
  \/ l \in DOMAIN bans /\ \E b \in bans[l] : b = toLowerCase(username[c])
  \/ l \in DOMAIN passwordHash /\ passwordHash[l] # NoHash
       /\ (p = "" \/ passwordHash[l] # hashPass(p))

\* C21: a join_lobby that is to be refused (banned name, or the lobby's
\* password absent or wrong) leaves users, gm, passwordHash and the socket's
\* lobby unchanged, broadcasts nothing and sends one error to the issuer.
C21_RefusedJoinInert == [][\A c \in Conns, r \in JoinLobbies, p \in JoinPasswords :
     (Refused(c, Asked(r), p) /\ JoinLobby(c, r, p))
        => (UNCHANGED <<users, gm, passwordHash, lobby>> /\ ErrorOnlyTo(c))]_vars

\* a socket named Ann has just been turned away from the tavern, where "ann"
\* is banned and a password is set
C21_BannedTurnedAway ==
  \E c \in Conns :
    /\ out = <<ToSock(c, "error_message", "You are banned from this lobby.")>>
    /\ username[c] = "Ann" /\ lobby[c] = NoLobby
    /\ "tavern" \in DOMAIN bans /\ "ann" \in bans["tavern"]
    /\ passwordHash["tavern"] # NoHash
    /\ c \notin DOMAIN users["tavern"]

\* ---------------------------------------------------------- consent requests
\* C22: in no reachable state is a consent request pending while its approval
\* set holds the name of every connected non-GM member (none being connected
\* included): some connected non-GM member is still missing from it.
C22_NoSatisfiedPending ==
  \A l \in DOMAIN settings :
    settings[l].pending # None =>
      \E k \in NonGMEntries(l) : users[l][k] \notin settings[l].pending[1].approvals

\* the choice ids campaign_choice_request is tried with: one of the first
\* scene, one of the second, one of no scene
Requests == {"c_intro_tavern", "c_tavern_accept", "c_nowhere"}

NextRequest ==
  \/ \E c \in Conns : Identify(c, "Ann")
  \/ \E c \in Conns : JoinDirect(c, "tavern", "")
  \/ \E c \in Conns : CampaignStart(c)
  \/ \E c \in Conns, id \in Requests : ChoiceRequest(c, id)
  \/ \E c \in Conns : ChoiceAck(c)
  \/ \E c \in Conns : ChoiceForce(c)

SpecRequest == InitOff /\ [][NextRequest]_vars

\* choice `id` is offered by the current scene of lobby l and leads to scene `to`
Offers(l, id, to) ==
  \E i \in DOMAIN campaign[l].scenes :
    /\ campaign[l].scenes[i].id = campaign[l].currentSceneId
    /\ \E j \in DOMAIN campaign[l].scenes[i].choices :
         campaign[l].scenes[i].choices[j] = [id |-> id, to |-> to]

InScene(l, id) == \E sc \in {"s_tavern", "s_road", "s_board", "s_market"} : Offers(l, id, sc)

\* the step sends nothing to a room
NoBroadcast == \A i \in DOMAIN out' : out'[i].room = ""

\* C23: campaign_choice_request from the GM of a started campaign for a
\* choice of the current scene makes that choice the pending request, with an
\* empty approval set, whatever was pending before; from a non-GM member (the
\* GM being connected), before the start or for any other choice id it leaves
\* the pending request as it was and broadcasts nothing.
C23_RequestRules == [][\A c \in Conns, id \in Requests :
     (InLobby(c) /\ Member(c) /\ ChoiceRequest(c, id))
        => LET l == lobby[c]
           IN  /\ (GMMember(c) /\ isGM(l, c) /\ settings[l].campaignStarted /\ InScene(l, id))
                    => \E to \in {"s_tavern", "s_road", "s_board", "s_market"} :
                         /\ Offers(l, id, to)
                         /\ settings'[l].pending = Some([choiceId |-> id, to |-> to, approvals |-> {}])
               /\ (Player(c) \/ ~settings[l].campaignStarted \/ ~InScene(l, id))
                    => (settings'[l].pending = settings[l].pending /\ NoBroadcast)]_vars

\* the same with the issuer's role read as the handler reads it
C23_RecognisedRequestRules == [][\A c \in Conns, id \in Requests :
     (InLobby(c) /\ ChoiceRequest(c, id))
        => LET l == lobby[c]
           IN  /\ (isGM(l, c) /\ settings[l].campaignStarted /\ InScene(l, id))
                    => \E to \in {"s_tavern", "s_road", "s_board", "s_market"} :
                         /\ Offers(l, id, to)
                         /\ settings'[l].pending = Some([choiceId |-> id, to |-> to, approvals |-> {}])
               /\ (~isGM(l, c) \/ ~settings[l].campaignStarted \/ ~InScene(l, id))
                    => (settings'[l].pending = settings[l].pending /\ NoBroadcast)]_vars

\* ------------------------------------------------------ starting the campaign
NextStart ==
  \/ \E c \in Conns : Identify(c, "Ann")
  \/ \E c \in Conns : JoinDirect(c, "tavern", "")
  \/ \E c \in Conns : CampaignStart(c)
  \/ \E c \in Conns : StartCommand(c)
  \/ \E c \in Conns, key \in {"mini", "none"} : CampaignLoad(c, key)
  \/ \E c \in Conns, key \in {"mini", "none"} : CampaignLoadAwait(c, key)
  \/ \E c \in Conns : CampaignLoadResume(c)

SpecStart == InitOff /\ [][NextStart]_vars

\* socket c sends campaign_start or /start
StartBy(c) == CampaignStart(c) \/ StartCommand(c)

\* socket c sends campaign_load
LoadSent(c) == \E key \in {"mini", "none"} : CampaignLoad(c, key) \/ CampaignLoadAwait(c, key)

\* a campaign_load of socket c is carried out, at once or when it resumes
LoadBy(c) == (\E key \in {"mini", "none"} : CampaignLoad(c, key)) \/ CampaignLoadResume(c)

\* the campaign_started messages of the step
StartedNotices == {i \in DOMAIN out' : out'[i].ev = "campaign_started"}

\* C24: campaignStarted turns true only in a campaign_start or /start of the
\* GM, and that step broadcasts campaign_started exactly once; a start while
\* started is answered with an error only and changes nothing; a start or a
\* campaign_load from a non-GM member (the GM being connected) changes
\* nothing; campaignStarted turns false only in a campaign_load.
C24_StartRules == [][\A l \in DOMAIN settings :
     /\ (~settings[l].campaignStarted /\ settings'[l].campaignStarted)
          => \E c \in Conns :
               /\ lobby[c] = l /\ StartBy(c)
               /\ Cardinality(StartedNotices) = 1 /\ out'[CHOOSE i \in StartedNotices : TRUE].room = l
     /\ \A c \in Conns :
          (InLobby(c) /\ lobby[c] = l /\ settings[l].campaignStarted /\ StartBy(c))
            => (ErrorOnlyTo(c) /\ UNCHANGED <<memberVars, gameVars>>)
     /\ \A c \in Conns :
          (InLobby(c) /\ lobby[c] = l /\ Player(c) /\ (StartBy(c) \/ LoadSent(c)))
            => (ErrorOnlyTo(c) /\ UNCHANGED <<memberVars, gameVars, awaiting>>)
     /\ (settings[l].campaignStarted /\ ~settings'[l].campaignStarted)
          => \E c \in Conns : LoadBy(c)]_vars

\* the same with the issuer's role read as the handlers read it
C24_RecognisedStartRules == [][\A l \in DOMAIN settings :
     /\ (~settings[l].campaignStarted /\ settings'[l].campaignStarted)
          => \E c \in Conns :
               /\ lobby[c] = l /\ StartBy(c)
               /\ Cardinality(StartedNotices) = 1 /\ out'[CHOOSE i \in StartedNotices : TRUE].room = l
     /\ \A c \in Conns :
          (InLobby(c) /\ lobby[c] = l /\ settings[l].campaignStarted /\ StartBy(c))
            => (ErrorOnlyTo(c) /\ UNCHANGED <<memberVars, gameVars>>)
     /\ \A c \in Conns :
          (InLobby(c) /\ lobby[c] = l /\ ~isGM(l, c) /\ (StartBy(c) \/ LoadSent(c)))
            => (ErrorOnlyTo(c) /\ UNCHANGED <<memberVars, gameVars, awaiting>>)
     /\ (settings[l].campaignStarted /\ ~settings'[l].campaignStarted)
          => \E c \in Conns : LoadBy(c)]_vars

\* ------------------------------------------------------------ forcing consent
NextForce ==
  \/ \E c \in Conns : lobby[c] = NoLobby /\ Identify(c, "Ann")
  \/ \E c \in Conns : JoinDirect(c, "tavern", "")
  \/ \E c \in Conns : CampaignStart(c)
  \/ \E c \in Conns : ChoiceRequest(c, "c_intro_tavern")
  \/ \E c \in Conns : ChoiceAck(c)
  \/ \E c \in Conns : ChoiceForce(c)
  \/ \E c \in Conns, a \in {"force", "yes"} : ConsentCommand(c, a)

SpecForce == InitOff /\ [][NextForce]_vars

\* C25: with a request pending, /consent force from the GM does to the lobby
\* what campaign_choice_force does: the pending request is cleared and
\* currentSceneId moves to its target when that scene exists.
C25_ForceCommandCommits == [][\A c \in Conns :
     (InLobby(c) /\ GMMember(c) /\ isGM(lobby[c], c) /\ settings[lobby[c]].pending # None
        /\ ConsentCommand(c, "force"))
        => LET l == lobby[c]
               to == settings[l].pending[1].to
           IN  /\ settings'[l].pending = None
               /\ (\E i \in DOMAIN campaign[l].scenes : campaign[l].scenes[i].id = to)
                    => campaign'[l].currentSceneId = to]_vars

\* the same for the campaign_choice_force message
C25_ForceMessageCommits == [][\A c \in Conns :
     (InLobby(c) /\ GMMember(c) /\ isGM(lobby[c], c) /\ settings[lobby[c]].pending # None
        /\ ChoiceForce(c))
        => LET l == lobby[c]
               to == settings[l].pending[1].to
           IN  /\ settings'[l].pending = None
               /\ (\E i \in DOMAIN campaign[l].scenes : campaign[l].scenes[i].id = to)
                    => campaign'[l].currentSceneId = to]_vars

\* --------------------------------------------------------------- map cells
\* the requested column x lies on the grid of m
OnGrid(m, x) == x # << >> /\ x[1] >= 0 /\ x[1] < m.w

\* C26: a map_set the server accepts as the GM's leaves the tiles as they
\* are when the requested column lies outside the grid; otherwise it sets
\* the addressed cell to 1 or 0 as asked and leaves every other cell alone;
\* in both cases the dimensions and the tokens stay.
C26_MapSetExact == [][\A c \in Conns, x \in Cols, val \in BOOLEAN :
     (InLobby(c) /\ isGM(lobby[c], c) /\ MapSetTile(c, x, <<0>>, val))
        => LET m == map[lobby[c]]
               n == map'[lobby[c]]
           IN  /\ n.w = m.w /\ n.h = m.h /\ n.tokens = m.tokens
               /\ IF OnGrid(m, x)
                    THEN /\ n.tiles[0][x[1]] = (IF val THEN 1 ELSE 0)
                         /\ \A yy \in DOMAIN m.tiles : \A xx \in DOMAIN m.tiles[yy] :
                              (yy # 0 \/ xx # x[1]) => n.tiles[yy][xx] = m.tiles[yy][xx]
                    ELSE n.tiles = m.tiles]_vars

\* the same for the requests whose column lies on the grid
C26_OnGridExact == [][\A c \in Conns, x \in Cols, val \in BOOLEAN :
     (InLobby(c) /\ isGM(lobby[c], c) /\ OnGrid(map[lobby[c]], x) /\ MapSetTile(c, x, <<0>>, val))
        => LET m == map[lobby[c]]
               n == map'[lobby[c]]
           IN  /\ n.w = m.w /\ n.h = m.h /\ n.tokens = m.tokens
               /\ n.tiles[0][x[1]] = (IF val THEN 1 ELSE 0)
               /\ \A yy \in DOMAIN m.tiles : \A xx \in DOMAIN m.tiles[yy] :
                    (yy # 0 \/ xx # x[1]) => n.tiles[yy][xx] = m.tiles[yy][xx]]_vars

\* ------------------------------------------------------- placing tokens
\* the side of the smallest grid map_init gives
Side == MinDim

\* cell (x, y) is the first one of the grid, row by row from the origin, that
\* is not yet a wall
NextToWall(m, x, y) ==
  /\ m.w = Side /\ m.h = Side
  /\ m.tiles[y][x] = 0
  /\ \A yy \in 0..(Side - 1), xx \in 0..(Side - 1) :
       (yy < y \/ (yy = y /\ xx < x)) => m.tiles[yy][xx] = 1

\* the GM shrinks the map to the smallest grid and walls it up cell by cell
\* while tokens are added and moved
NextWalls ==
  \/ \E c \in Conns : JoinDirect(c, "tavern", "")
  \/ \E c \in Conns : CampaignStart(c)
  \/ \E c \in Conns : InLobby(c) /\ map[lobby[c]].w # Side /\ MapInit(c, <<Side>>, <<Side>>)
  \/ \E c \in Conns, x \in 0..(Side - 1), y \in 0..(Side - 1) :
       /\ InLobby(c) /\ NextToWall(map[lobby[c]], x, y)
       /\ MapSetTile(c, <<x>>, <<y>>, TRUE)
  \/ \E c \in Conns, id \in {"t1", "t2"} : TokenAdd(c, id, "", "")
  \/ \E c \in Conns : TokenMove(c, "t1", <<99>>, <<2>>)

SpecWalls == InitOff /\ [][NextWalls]_vars

\* cell (x, y) of m is on the grid, open and holds no token
Vacant(m, x, y) ==
  /\ x \in 0..(m.w - 1) /\ y \in 0..(m.h - 1)
  /\ m.tiles[y][x] = 0
  /\ \A t \in DOMAIN m.tokens : ~(m.tokens[t].x = x /\ m.tokens[t].y = y)

\* every token of every map stands on the grid
OnTheGrid ==
  \A l \in DOMAIN map : \A t \in DOMAIN map[l].tokens :
    /\ map[l].tokens[t].x \in 0..(map[l].w - 1)
    /\ map[l].tokens[t].y \in 0..(map[l].h - 1)

\* the token a token_add of socket c for id has put on the map stands on the
\* first cell, row by row from the origin, that was vacant
PlacedFirstVacant(c, id) ==
  LET m == map[lobby[c]]
      tok == map'[lobby[c]].tokens[id]
  IN  /\ Vacant(m, tok.x, tok.y)
      /\ \A yy \in 0..(m.h - 1), xx \in 0..(m.w - 1) :
           (yy < tok.y \/ (yy = tok.y /\ xx < tok.x)) => ~Vacant(m, xx, yy)

\* C27: every token stands on the grid in every reachable state, and a
\* token_add that places a token puts it on the first cell in row-major order
\* that is open and free of tokens, whatever the walls and tokens are.
C27_TokenPlacement ==
  /\ []OnTheGrid
  /\ [][\A c \in Conns, id \in {"t1", "t2"} :
          (InLobby(c) /\ ~Locked(c) /\ TokenAdd(c, id, "", ""))
             => PlacedFirstVacant(c, id)]_vars

\* the same for the maps that have a vacant cell
C27_PlacementWithRoom ==
  /\ []OnTheGrid
  /\ [][\A c \in Conns, id \in {"t1", "t2"} :
          (/\ InLobby(c) /\ ~Locked(c)
           /\ \E yy \in 0..(Side - 1), xx \in 0..(Side - 1) : Vacant(map[lobby[c]], xx, yy)
           /\ TokenAdd(c, id, "", ""))
             => PlacedFirstVacant(c, id)]_vars

\* ---------------------------------------------------------- token ownership
NextOwner ==
  \/ \E c \in Conns : Identify(c, "Ann")
  \/ \E c \in Conns : JoinDirect(c, "tavern", "")
  \/ \E c \in Conns : CampaignStart(c)
  \/ \E c \in Conns : TokenAdd(c, "t1", "", "")
  \/ \E c \in Conns : TokenMove(c, "t1", <<1>>, << >>)
  \/ \E c \in Conns : TokenRemove(c, "t1")

SpecOwner == InitOff /\ [][NextOwner]_vars

\* socket c sends token_move or token_remove for token t1
Handles(c) == TokenMove(c, "t1", <<1>>, << >>) \/ TokenRemove(c, "t1")

\* C28: a token_move or token_remove from a member who is recorded neither
\* under the token's owner name nor as the GM (the GM being connected)
\* leaves the tokens unchanged and broadcasts nothing.
C28_OwnerOrGMOnly == [][\A c \in Conns :
     (/\ Player(c)
      /\ "t1" \in DOMAIN map[lobby[c]].tokens
      /\ map[lobby[c]].tokens["t1"].owner # users[lobby[c]][c]
      /\ Handles(c))
        => (UNCHANGED map /\ NoBroadcast)]_vars

\* the same with the issuer's name read as the handlers read it
C28_RecognisedOwnerOrGMOnly == [][\A c \in Conns :
     (/\ InLobby(c) /\ ~isGM(lobby[c], c)
      /\ "t1" \in DOMAIN map[lobby[c]].tokens
      /\ map[lobby[c]].tokens["t1"].owner # username[c]
      /\ Handles(c))
        => (UNCHANGED map /\ NoBroadcast)]_vars

\* ------------------------------------------------------ the idle encounter
\* C29: an encounter that is not active has an empty order in every
\* reachable state, and no /setinit changes the order of one.
C29_IdleHasNoOrder ==
  /\ [](\A l \in DOMAIN encounter : ~encounter[l].active => encounter[l].order = << >>)
  /\ [][\A c \in Conns, a \in Inits :
          (InLobby(c) /\ ~encounter[lobby[c]].active /\ SetInit(c, SetInitArg(a[1], <<a[2]>>)))
             => UNCHANGED encounter]_vars

\* every other way out of the active state, and the start, leaves the order empty
C29_StartAndEndEmpty == [][\A c \in Conns :
     (InLobby(c) /\ (StartEncounter(c) \/ EndEncounter(c)) /\ encounter' # encounter)
        => encounter'[lobby[c]].order = << >>]_vars

\* ------------------------------------------------------------------ leaving
NextLeave ==
  \/ \E c \in Conns : lobby[c] = NoLobby /\ Identify(c, "Ann")
  \/ \E c \in Conns : JoinDirect(c, "tavern", "")
  \/ \E c \in Conns : Chat(c, "hi")
  \/ \E c \in Conns : TokenAdd(c, "t1", "", "")
  \/ \E c \in Conns : CharacterUpsert(c, <<[name |-> ""]>>)
  \/ \E c \in Conns : Kick(c, "Anon")
  \/ \E c \in Conns : Disconnect(c)

SpecLeave == InitOff /\ [][NextLeave]_vars

\* the members map of lobby l without the entry of socket c
Remaining(l, c) == [k \in (DOMAIN users[l]) \ {c} |-> users[l][k]]

\* C30: the disconnect of a socket that has a lobby removes that socket's
\* entry, and no other, from the lobby's users, leaves its tokens, characters,
\* logs, encounter, campaign, settings, gm, password and bans unchanged, and
\* ends with a state broadcast to the lobby that lists the remaining members.
C30_DisconnectFrame == [][\A c \in Conns :
     (open[c] /\ lobby[c] # NoLobby /\ Disconnect(c))
        => /\ users'[lobby[c]] = Remaining(lobby[c], c)
           /\ \A l \in DOMAIN users : l # lobby[c] => users'[l] = users[l]
           /\ UNCHANGED <<gm, passwordHash, bans, map, characters, messages, rolls,
                          encounter, campaign, settings>>
           /\ out' # << >>
           /\ out'[Len(out')].ev = "state" /\ out'[Len(out')].room = lobby[c]
           /\ out'[Len(out')].data.users = Remaining(lobby[c], c)]_vars

\* Ann, who owns token t1 and a character sheet, has just disconnected: the
\* state broadcast lists Anon alone, and her token and sheet are still there
C30_OwnerLeft ==
  \E c \in Conns, d \in Conns :
    /\ c # d /\ ~open[c] /\ open[d] /\ lobby[c] = "tavern"
    /\ users["tavern"] = [k \in {d} |-> "Anon"]
    /\ "t1" \in DOMAIN map["tavern"].tokens /\ map["tavern"].tokens["t1"].owner = "Ann"
    /\ "Ann" \in characters["tavern"]
    /\ Len(out) = 2 /\ out[1] = ToRoom("tavern", "system", "Ann left")
    /\ out[2].ev = "state" /\ out[2].data.users = users["tavern"]

\* ------------------------------------------------------- refused rolls
\* rolls whose expression rollAdvanced throws on, sent as the roll event,
\* as "/roll" to part_001 and as "/roll" to src/server.js, beside a good roll
NextBadRoll ==
  \/ \E c \in Conns : lobby[c] = NoLobby /\ Identify(c, "Ann")
  \/ \E c \in Conns : JoinDirect(c, "tavern", "")
  \/ \E c \in Conns : CampaignStart(c)
  \/ \E c \in Conns : Roll(c, "d1", NoRandom)
  \/ \E c \in Conns, e \in BadExprs : Roll(c, e, NoRandom)
  \/ \E c \in Conns, e \in BadExprs : RollCommand(c, e, NoRandom)
  \/ \E c \in Conns, e \in BadExprs : RollCommandNoCatch(c, e, NoRandom)

SpecBadRoll == InitOff /\ [][NextBadRoll]_vars

\* the step told socket c, and nobody else, that its request failed, and
\* left the lobbies as they were
ToldAndInert(c) == ErrorOnlyTo(c) /\ UNCHANGED <<memberVars, gameVars>>

\* C31: a roll event or /roll command with a malformed or out-of-bounds
\* expression is reported to the issuing socket only, appends nothing to the
\* roll log, changes no other lobby state and broadcasts nothing.
C31_BadRollReported == [][\A c \in Conns, e \in BadExprs :
     (InLobby(c) /\ (Roll(c, e, NoRandom) \/ RollCommand(c, e, NoRandom)
                       \/ RollCommandNoCatch(c, e, NoRandom)))
        => ToldAndInert(c)]_vars

\* the same for the roll event and the /roll of part_001
C31_CaughtBadRollReported == [][\A c \in Conns, e \in BadExprs :
     (InLobby(c) /\ (Roll(c, e, NoRandom) \/ RollCommand(c, e, NoRandom)))
        => ToldAndInert(c)]_vars

\* the /roll of src/server.js changes no lobby state and sends nothing
C31_UncaughtBadRollSilent == [][\A c \in Conns, e \in BadExprs :
     (InLobby(c) /\ RollCommandNoCatch(c, e, NoRandom))
        => (out' = << >> /\ UNCHANGED <<memberVars, gameVars>>)]_vars

\* ------------------------------------------------- the authorising name
\* identify at any time, beside the handlers that test the GM or the owner
NextName ==
  \/ \E c \in Conns : Identify(c, "Ann")
  \/ \E c \in Conns : JoinDirect(c, "tavern", "")
  \/ \E c \in Conns : CampaignStart(c)
  \/ \E c \in Conns : TokenAdd(c, "t1", "", "")
  \/ \E c \in Conns : TokenMove(c, "t1", <<1>>, << >>)
  \/ \E c \in Conns : CharacterUpsert(c, <<[name |-> "Ann"]>>)

SpecName == InitOff /\ [][NextName]_vars

\* C32: for every member of a lobby, the name the server authorises and
\* attributes its actions by (the closure username) is the display name
\* recorded for it in the lobby's members map.
C32_NameAgrees == \A c \in Conns : Member(c) => username[c] = users[lobby[c]][c]

\* the join records the name it leaves in the closure
C32_JoinRecordsName == [][\A c \in Conns :
     JoinDirect(c, "tavern", "") => (Member(c)' /\ username'[c] = users'[lobby'[c]][c])]_vars

\* a member recorded under another name than the GM's does not start the campaign
C32_NoBorrowedStart == [][\A c \in Conns :
     (NonGMMember(c) /\ CampaignStart(c)) => UNCHANGED settings]_vars

\* a member edits no sheet recorded under another member's name
C32_NoBorrowedSheet == [][\A c \in Conns :
     (NonGMMember(c) /\ users[lobby[c]][c] # "Ann" /\ CharacterUpsert(c, <<[name |-> "Ann"]>>))
        => UNCHANGED characters]_vars

\* ------------------------------------------------------ after the kick
\* a GM that kicks the member named Anon, and the events that member may
\* send before and after
NextKick ==
  \/ \E c \in Conns : lobby[c] = NoLobby /\ Identify(c, "Ann")
  \/ \E c \in Conns : JoinDirect(c, "tavern", "")
  \/ \E c \in Conns : CampaignStart(c)
  \/ \E c \in Conns : Kick(c, "Anon")
  \/ \E c \in Conns : Chat(c, "hi")
  \/ \E c \in Conns : TokenAdd(c, "t1", "", "")
  \/ \E c \in Conns : ChoiceRequest(c, "c_intro_tavern")
  \/ \E c \in Conns : ChoiceAck(c)

SpecKick == InitOff /\ [][NextKick]_vars

\* socket c, not the GM, was removed from the members of the lobby it last
\* joined and has not joined since
Kicked(c) ==
  /\ open[c] /\ lobby[c] # NoLobby
  /\ c \notin DOMAIN users[lobby[c]]
  /\ ~isGM(lobby[c], c)

\* one of the state-changing events from socket c
Acts(c) ==
  \/ Chat(c, "hi") \/ TokenAdd(c, "t1", "", "") \/ ChoiceAck(c)

\* C33: a kicked connection changes nothing of the lobby's state (chat log,
\* roll log, tokens, sheets, campaign, approvals) and triggers no broadcast
\* to the lobby until it joins again.
C33_KickedIsInert == [][\A c \in Conns :
     (Kicked(c) /\ Acts(c)) => (UNCHANGED gameVars /\ NoBroadcast)]_vars

\* the kick removes the target's entry and takes it out of the room, so it
\* no longer receives the lobby's broadcasts
C33_KickRemoves == [][\A c \in Conns :
     (InLobby(c) /\ gm[lobby[c]] = Some("Ann") /\ isGM(lobby[c], c)
        /\ EntryOf(lobby[c], "Anon") # {} /\ Kick(c, "Anon"))
        => \E t \in EntryOf(lobby[c], "Anon") :
             /\ t \notin DOMAIN users'[lobby[c]]
             /\ room'[t] = ""
             /\ Kicked(t)']_vars

\* ---------------------------------------------------- changing lobbies
\* two lobbies, and sockets that join one after the other and leave
NextSwitch ==
  \/ \E c \in Conns : lobby[c] = NoLobby /\ Identify(c, "Ann")
  \/ \E c \in Conns, l \in {"", "keep"} : JoinDirect(c, l, "")
  \/ \E c \in Conns : Disconnect(c)

SpecSwitch == InitOff /\ [][NextSwitch]_vars

\* the lobbies whose members map has an entry for socket c
RecordedIn(c) == {l \in DOMAIN users : c \in DOMAIN users[l]}

\* C34: a connection is recorded in the members map of at most one lobby,
\* the one it joined last, and in none once it has disconnected.
C34_OneLobby == \A c \in Conns :
  RecordedIn(c) \subseteq (IF open[c] /\ lobby[c] # NoLobby THEN {lobby[c]} ELSE {})

\* the same for the connections that have joined at most once
C34_OneLobbyAfterOneJoin == \A c \in Conns :
  joins[c] <= 1 =>
    RecordedIn(c) \subseteq (IF open[c] /\ lobby[c] # NoLobby THEN {lobby[c]} ELSE {})

\* the user list broadcast to a lobby names only sockets that are in it
C34_ListedArePresent == \A i \in DOMAIN out :
  out[i].ev = "state" =>
    \A c \in DOMAIN out[i].data.users : open[c] /\ lobby[c] = out[i].room

\* ------------------------------------------------- adding a token twice
\* members that add tokens under two ids, again and again
NextRetake ==
  \/ \E c \in Conns : lobby[c] = NoLobby /\ Identify(c, "Ann")
  \/ \E c \in Conns : JoinDirect(c, "tavern", "")
  \/ \E c \in Conns : CampaignStart(c)
  \/ \E c \in Conns, id \in {"t1", "t2"} : TokenAdd(c, id, "", "")

SpecRetake == InitOff /\ [][NextRetake]_vars

\* socket c, allowed past the start lock, sends token_add for an id that
\* names a token of lobby l already
AddsAgain(c, l, id) ==
  /\ InLobby(c) /\ lobby[c] = l /\ ~Locked(c)
  /\ id \in DOMAIN map[l].tokens
  /\ TokenAdd(c, id, "", "")

\* C35: token_add never modifies an existing token: when the id names a
\* token already, a token_add from a member who is neither its owner nor
\* the GM leaves that token's position, name, color and owner unchanged.
C35_AddKeepsExisting == [][\A c \in Conns, id \in {"t1", "t2"} :
     (InLobby(c) /\ AddsAgain(c, lobby[c], id)
        /\ ~isGM(lobby[c], c) /\ map[lobby[c]].tokens[id].owner # username[c])
        => map'[lobby[c]].tokens[id] = map[lobby[c]].tokens[id]]_vars

\* token_add leaves the tokens under every other id unchanged
C35_AddKeepsOthers == [][\A c \in Conns, id \in {"t1", "t2"} :
     (InLobby(c) /\ ~Locked(c) /\ TokenAdd(c, id, "", ""))
        => \A o \in DOMAIN map[lobby[c]].tokens :
             o # id => (o \in DOMAIN map'[lobby[c]].tokens
                          /\ map'[lobby[c]].tokens[o] = map[lobby[c]].tokens[o])]_vars

\* ------------------------------------------------------ joining again
\* members that join the lobby they are in a second time
NextRejoin ==
  \/ \E c \in Conns : lobby[c] = NoLobby /\ Identify(c, "Ann")
  \/ \E c \in Conns : JoinDirect(c, "tavern", "")
  \/ \E c \in Conns : CampaignStart(c)
  \/ \E c \in Conns : Disconnect(c)

SpecRejoin == InitOff /\ [][NextRejoin]_vars

\* socket c, a member of the tavern, completes a join_lobby for the tavern
Rejoins(c) == Member(c) /\ lobby[c] = "tavern" /\ JoinDirect(c, "tavern", "")

\* C36: join_lobby by a member of the named lobby leaves its recorded
\* display name unchanged, so a GM that re-joins its own lobby is still
\* recognised as GM.
C36_RejoinKeepsName == [][\A c \in Conns :
     Rejoins(c)
        => /\ users'["tavern"][c] = users["tavern"][c]
           /\ isGM("tavern", c) => gm'["tavern"] = Some(username'[c])]_vars

\* the re-join leaves the gm field and the set of recorded sockets as they were
C36_RejoinKeepsSeat == [][\A c \in Conns :
     Rejoins(c)
        => /\ gm'["tavern"] = gm["tavern"]
           /\ DOMAIN users'["tavern"] = DOMAIN users["tavern"]]_vars

\* --------------------------------------------------- the stale request
\* a GM that changes the scene while a request is pending
NextStale ==
  \/ \E c \in Conns : lobby[c] = NoLobby /\ Identify(c, "Ann")
  \/ \E c \in Conns : JoinDirect(c, "tavern", "")
  \/ \E c \in Conns : CampaignStart(c)
  \/ \E c \in Conns : ChoiceRequest(c, "c_intro_tavern")
  \/ \E c \in Conns : CampaignSceneSet(c, "s_board")
  \/ \E c \in Conns : SceneSetCommand(c, "s_market")
  \/ \E c \in Conns : ChoiceAck(c)
  \/ \E c \in Conns : ChoiceForce(c)

SpecStale == InitOff /\ [][NextStale]_vars

\* a choice of the scene with id from leads to the scene with id to
Leads(l, from, to) ==
  \E sc \in ScenesWithId(l, from) : \E j \in DOMAIN sc.choices : sc.choices[j].to = to

\* the step is a campaign_choice_ack or campaign_choice_force that moves the
\* scene pointer of lobby l
CommitMoves(l) ==
  /\ \E c \in Conns : InLobby(c) /\ lobby[c] = l /\ (ChoiceAck(c) \/ ChoiceForce(c))
  /\ campaign'[l].currentSceneId # campaign[l].currentSceneId

\* C37: a commit, by quorum or by force, moves currentSceneId only along a
\* choice of the scene that is current when it commits; a request made
\* before the GM set another scene cannot move the pointer to its old target.
C37_CommitFromCurrent == [][\A l \in DOMAIN campaign :
     CommitMoves(l)
        => Leads(l, campaign[l].currentSceneId, campaign'[l].currentSceneId)]_vars

\* a commit moves the pointer to the target of the request that was pending
\* and clears that request
C37_CommitToTarget == [][\A l \in DOMAIN campaign :
     CommitMoves(l)
        => /\ settings[l].pending # None
           /\ campaign'[l].currentSceneId = settings[l].pending[1].to
           /\ settings'[l].pending = None]_vars

\* ------------------------------------------- requests and the start flag
\* starting, requesting, committing and loading in any order, the load in
\* one step or parked on the registry read
NextPending ==
  \/ \E c \in Conns : lobby[c] = NoLobby /\ Identify(c, "Ann")
  \/ \E c \in Conns : JoinDirect(c, "tavern", "")
  \/ \E c \in Conns : CampaignStart(c)
  \/ \E c \in Conns : StartCommand(c)
  \/ \E c \in Conns : ChoiceRequest(c, "c_intro_tavern")
  \/ \E c \in Conns : ChoiceAck(c)
  \/ \E c \in Conns : ChoiceForce(c)
  \/ \E c \in Conns, key \in {"mini", "none"} : CampaignLoad(c, key)
  \/ \E c \in Conns : CampaignLoadAwait(c, "mini")
  \/ \E c \in Conns : CampaignLoadResume(c)

SpecPending == InitOff /\ [][NextPending]_vars

\* the step is a campaign_load carried out for some socket
Loads == \E c \in Conns :
  \/ \E key \in {"mini", "none"} : CampaignLoad(c, key)
  \/ CampaignLoadResume(c)

\* C38: whenever a consent request is pending the campaign has started; the
\* start flag goes back to false only in a campaign_load, and that step
\* leaves no request pending.
C38_PendingImpliesStarted ==
  /\ [](\A l \in DOMAIN settings :
          settings[l].pending # None => settings[l].campaignStarted)
  /\ [][\A l \in DOMAIN settings :
          (settings[l].campaignStarted /\ ~settings'[l].campaignStarted)
             => (Loads /\ settings'[l].pending = None)]_vars

\* a request is pending while a campaign_load waits for the registry
C38_LoadParkedOverRequest ==
  \E c \in Conns :
    /\ Len(awaiting[c]) = 3
    /\ settings[awaiting[c][2]].pending # None
    /\ settings[awaiting[c][2]].campaignStarted

\* ----------------------------------------------------- the scene pointer
\* a GM that adds a scene and choices leading to it, to a scene that does
\* not exist and nowhere, and moves the pointer in every way there is
NextPointer ==
  \/ \E c \in Conns : lobby[c] = NoLobby /\ Identify(c, "Ann")
  \/ \E c \in Conns : JoinDirect(c, "tavern", "")
  \/ \E c \in Conns : CampaignStart(c)
  \/ \E c \in Conns : CampaignSceneAdd(c, "scn_1")
  \/ \E c \in Conns, sc \in {"s_intro", "s_none"}, to \in {"scn_1", "s_void", ""} :
       CampaignChoiceAdd(c, sc, to, "ch_1")
  \/ \E c \in Conns, id \in {"scn_1", "s_void"} : CampaignSceneSet(c, id)
  \/ \E c \in Conns, id \in {"s_intro", "s_void"} : SceneSetCommand(c, id)
  \/ \E c \in Conns : ChoiceRequest(c, "ch_1")
  \/ \E c \in Conns : ChoiceAck(c)
  \/ \E c \in Conns : ChoiceForce(c)

SpecPointer == InitOff /\ [][NextPointer]_vars

\* the campaign of lobby l has a scene with this id
HasScene(l, id) == \E i \in DOMAIN campaign[l].scenes : campaign[l].scenes[i].id = id

\* C39: from the default campaign, under scene and choice additions, scene
\* sets, consent commits and force commits, currentSceneId is always the id
\* of a scene of the campaign, and a commit whose target does not exist
\* leaves the pointer unchanged.
C39_PointerValid ==
  /\ [](\A l \in DOMAIN campaign : HasScene(l, campaign[l].currentSceneId))
  /\ [][\A c \in Conns :
          (/\ InLobby(c) /\ settings[lobby[c]].pending # None
           /\ ~HasScene(lobby[c], settings[lobby[c]].pending[1].to)
           /\ (ChoiceAck(c) \/ ChoiceForce(c)))
             => campaign'[lobby[c]].currentSceneId = campaign[lobby[c]].currentSceneId]_vars

\* a request for a choice that leads to no scene was committed: the request
\* is gone, only the state was broadcast, the pointer is on a scene
C39_CommittedToNowhere ==
  \E l \in DOMAIN campaign :
    /\ Leads(l, "s_intro", "s_void")
    /\ ~HasScene(l, "s_void")
    /\ settings[l].pending = None
    /\ Len(out) = 1 /\ out[1].ev = "state"
    /\ campaign[l].currentSceneId = "s_intro"

\* ------------------------------------------------ whose turn it is
\* the name at order[turnIndex] of an encounter e, counted from 0 as the
\* code does; "" when the index names no entry
Holder(e) == IF (e.turnIndex + 1) \in DOMAIN e.order THEN e.order[e.turnIndex + 1].name ELSE ""

\* the GM's socket c sends /setinit for a[1] during an active encounter of
\* which another combatant holds the turn
SetsOther(c, a) ==
  /\ InLobby(c) /\ isGM(lobby[c], c)
  /\ encounter[lobby[c]].active
  /\ Holder(encounter[lobby[c]]) \notin {"", a[1]}
  /\ SetInit(c, SetInitArg(a[1], <<a[2]>>))

\* C40: during an active encounter a /setinit for a combatant other than
\* the current turn holder leaves the name at order[turnIndex] unchanged.
C40_SetInitKeepsHolder == [][\A c \in Conns, a \in Inits :
     SetsOther(c, a) => Holder(encounter'[lobby[c]]) = Holder(encounter[lobby[c]])]_vars

\* such a /setinit leaves turnIndex and the active flag unchanged, and the
\* holder's entry stays in the order with its initiative
C40_SetInitKeepsIndex == [][\A c \in Conns, a \in Inits :
     SetsOther(c, a)
        => /\ encounter'[lobby[c]].turnIndex = encounter[lobby[c]].turnIndex
           /\ encounter'[lobby[c]].active
           /\ \E i \in DOMAIN encounter'[lobby[c]].order :
                encounter'[lobby[c]].order[i] =
                  encounter[lobby[c]].order[encounter[lobby[c]].turnIndex + 1]]_vars

====
